---- MODULE Spec2Model ----
(***************************************************************************)
(* Model of the OLIDS patient explorer: the medication status derivation   *)
(* (page_modules/medications.py), the record and patient retrieval         *)
(* services (services/record_service.py, services/patient_service.py),     *)
(* the cached warehouse connection (database.py) and the script runs of    *)
(* the application (streamlit_app.py, page_modules/search.py).             *)
(*                                                                         *)
(* Time: datetime.now() is a timestamp with a time of day, a DATE column   *)
(* converted by pd.to_datetime() is the midnight of its day.  A timestamp  *)
(* is the integer day * TicksPerDay + tick, tick 0 being midnight.         *)
(* A DataFrame is modelled by the sequence of its rows (.empty is "no      *)
(* rows").                                                                 *)
(***************************************************************************)
EXTENDS Integers, Sequences, FiniteSets, TLC

\* ---------------------------------------------------------------- bounds
MaxDay == 2
TicksPerDay == 2
MaxDuration == 2
\* config.MAX_OBSERVATIONS (10000), scaled to tables of a few rows
MAX_OBSERVATIONS == 2
\* the most appointments of the person under test
MaxAppointments == 3
\* the length of DATEADD(month, -12, ...) in days (a year), scaled
YearDays == 1
\* the script runs (one per browser session) that may execute concurrently
MaxRuns == 2

\* ------------------------------------------------------ value encodings
\* NULL: SQL NULL / None / NaN (pd.isna is true); BAD: a value that is
\* present but cannot be converted (pd.to_datetime / int raise);
\* MISSING: the key is not in the row (row[...] raises KeyError).
NULL == 0 - 1
BAD == 0 - 2
MISSING == 0 - 3

Days == 0..MaxDay
\* the current day is chosen so that a day before and a day after exist
NowDays == 1..(MaxDay - 1)
Ticks == 0..(TicksPerDay - 1)

DateValues == Days \cup {NULL, BAD, MISSING}
DurationValues == (0..MaxDuration) \cup {NULL, BAD, MISSING}
FlagValues == {"null", "true", "false", "missing"}

Rows ==
  [CANCELLATION_DATE : DateValues,
   EXPIRY_DATE : DateValues,
   STATEMENT_IS_ACTIVE : FlagValues,
   CLINICAL_EFFECTIVE_DATE : DateValues,
   DURATION_DAYS : DurationValues]

NullRow ==
  [CANCELLATION_DATE |-> NULL,
   EXPIRY_DATE |-> NULL,
   STATEMENT_IS_ACTIVE |-> "null",
   CLINICAL_EFFECTIVE_DATE |-> NULL,
   DURATION_DAYS |-> NULL]

Exceptions == {"KeyError", "ValueError"}
Statuses == {"Current", "Cancelled", "Expired", "Past", "Unknown"}

VARIABLES
  nowDay,      \* the current date
  nowTick,     \* the time of day of datetime.now()
  row,         \* the row handed to calculate_medication_status
  status,      \* the value it returned ("none": not called, or it raised)
  raised,      \* the exception raised inside its try block, or "none"
  propagated,  \* the exception that reached its caller, or "none"
  persons,     \* warehouse: the current demographics table
  history,     \* warehouse: the historical demographics table
  ltc,         \* warehouse: the long-term-condition summary table
  observations, \* warehouse: the observation table
  orders,      \* warehouse: medication orders joined to their statement
  appointments, \* warehouse: the appointment table
  op,          \* the service operation called last, with its arguments
  ret,         \* the value it returned to its caller
  msgs,        \* the st.error / st.warning messages it surfaced
  exc,         \* the exception it let through to its caller, or "none"
  queries,     \* the warehouse queries it executed, in order
  cache,       \* the st.cache_resource entry of get_connection: <<>> or <<value>>
  created,     \* the number of warehouse sessions created in this process
  run,         \* per script run: its position, its handle, its messages
  session      \* per script run: st.session_state of its browser session

clock == <<nowDay, nowTick>>
statusCall == <<row, status, raised, propagated>>
warehouse == <<persons, history, ltc, observations, orders, appointments>>
serviceCall == <<op, ret, msgs, exc, queries>>
process == <<cache, created, run>>
vars == <<clock, statusCall, warehouse, serviceCall, process, session>>

\* ------------------------------------------------- medication status
\* pd.to_datetime on a date: the midnight of that day
to_datetime(d) == d * TicksPerDay

\* timedelta(days=n)
timedelta(n) == n * TicksPerDay

\* datetime.now()
Now(day, tick) == day * TicksPerDay + tick

\* Each check of the try block gives the status it returns, the exception
\* it raises, or "next" when control falls through to the following check.

\* "Check if cancelled"
CancelledCheck(r, today) ==
  IF r.CANCELLATION_DATE = MISSING THEN "KeyError"
  ELSE IF r.CANCELLATION_DATE = NULL THEN "next"
  ELSE IF r.CANCELLATION_DATE = BAD THEN "ValueError"
  ELSE IF to_datetime(r.CANCELLATION_DATE) <= today THEN "Cancelled"
  ELSE "next"

\* "Check statement expiry date"
ExpiryCheck(r, today) ==
  IF r.EXPIRY_DATE = MISSING THEN "KeyError"
  ELSE IF r.EXPIRY_DATE = NULL THEN "next"
  ELSE IF r.EXPIRY_DATE = BAD THEN "ValueError"
  ELSE IF to_datetime(r.EXPIRY_DATE) < today THEN "Expired"
  ELSE "next"

\* "Check statement is_active flag"
ActiveFlagCheck(r, today) ==
  IF r.STATEMENT_IS_ACTIVE = "missing" THEN "KeyError"
  ELSE IF r.STATEMENT_IS_ACTIVE = "false" THEN "Past"
  ELSE "next"

\* "Check duration-based expiry"; `and` does not read DURATION_DAYS when
\* CLINICAL_EFFECTIVE_DATE is null, and neither value is converted unless
\* both are non-null.
DurationCheck(r, today) ==
  IF r.CLINICAL_EFFECTIVE_DATE = MISSING THEN "KeyError"
  ELSE IF r.CLINICAL_EFFECTIVE_DATE = NULL THEN "next"
  ELSE IF r.DURATION_DAYS = MISSING THEN "KeyError"
  ELSE IF r.DURATION_DAYS = NULL THEN "next"
  ELSE IF r.CLINICAL_EFFECTIVE_DATE = BAD THEN "ValueError"
  ELSE IF r.DURATION_DAYS = BAD THEN "ValueError"
  ELSE IF today <= to_datetime(r.CLINICAL_EFFECTIVE_DATE)
                     + timedelta(r.DURATION_DAYS) THEN "Current"
  ELSE "Expired"

\* The first outcome of a sequence of checks that is not "next"
RECURSIVE FirstOutcome(_)
FirstOutcome(outcomes) ==
  IF outcomes = <<>> THEN "Current"
  ELSE IF Head(outcomes) # "next" THEN Head(outcomes)
  ELSE FirstOutcome(Tail(outcomes))

\* mutant: the expiry check placed before the cancellation check
StatusRules_ExpiryFirst(r, today) ==
  FirstOutcome(<<ExpiryCheck(r, today), CancelledCheck(r, today),
                 ActiveFlagCheck(r, today), DurationCheck(r, today)>>)

\* mutant: the duration check placed before the is_active check
StatusRules_DurationFirst(r, today) ==
  FirstOutcome(<<CancelledCheck(r, today), ExpiryCheck(r, today),
                 DurationCheck(r, today), ActiveFlagCheck(r, today)>>)

\* The body of the try block: the status returned, or the exception raised.
StatusRules(r, today) ==
  FirstOutcome(<<CancelledCheck(r, today), ExpiryCheck(r, today),
                 ActiveFlagCheck(r, today), DurationCheck(r, today)>>)

\* mutant: "except ValueError:" in place of the bare "except:"
calculate_medication_status_ValueErrorOnly(r, today) ==
  LET body == StatusRules(r, today)
  IN  IF body = "ValueError" THEN [ret |-> "Unknown", exc |-> "none"]
      ELSE IF body \in Exceptions THEN [ret |-> "none", exc |-> body]
      ELSE [ret |-> body, exc |-> "none"]

\* try: ... except: return "Unknown"
calculate_medication_status(r, today) ==
  LET body == StatusRules(r, today)
  IN  IF body \in Exceptions
      THEN [ret |-> "Unknown", exc |-> "none"]
      ELSE [ret |-> body, exc |-> "none"]

CalculateMedicationStatus ==
  LET today == Now(nowDay, nowTick)
      body == StatusRules(row, today)
      call == calculate_medication_status(row, today)
  IN  /\ status' = call.ret
      /\ propagated' = call.exc
      /\ raised' = IF body \in Exceptions THEN body ELSE "none"
      /\ UNCHANGED <<nowDay, nowTick, row, warehouse, serviceCall, process, session>>

\* ------------------------------------------------------ service calls
\* The natural identifier (person_id) is a string: a sequence of characters.
PersonA == <<"A", "1">>
PersonB == <<"2">>
PersonIds == {PersonA, PersonB}

EmptyDict == [k \in {} |-> NULL]
NoReturn == [kind |-> "none", rows |-> <<>>, dict |-> EmptyDict]
\* a pandas DataFrame, by its rows
DataFrame(rows) == [kind |-> "table", rows |-> rows, dict |-> EmptyDict]
\* a Python dict
Dict(d) == [kind |-> "dict", rows |-> <<>>, dict |-> d]

NoCall ==
  /\ op = [name |-> "none"]
  /\ ret = NoReturn
  /\ msgs = <<>>
  /\ exc = "none"
  /\ queries = <<>>

\* conn.sql(query).to_pandas(): the query named q, which throws or not
Executed(q, throws) == [query |-> q, threw |-> q \in throws]

\* The outcome of one service call
Outcome(r, m, e, qs) == [ret |-> r, msgs |-> m, exc |-> e, queries |-> qs]

\* ------------------------------------------------ warehouse connection
Runs == 1..MaxRuns

\* mutant: st.stop() left out, the function falls off its end with None
get_connection_NoStop(succeeds, made) ==
  IF succeeds
  THEN [ret |-> <<made + 1>>, msgs |-> <<>>, stopped |-> FALSE]
  ELSE [ret |-> <<NULL>>,
        msgs |-> <<"error: Failed to connect to Snowflake">>,
        stopped |-> FALSE]

\* The body of get_connection.  get_active_session() returns the session,
\* numbered made + 1 when `made` sessions were made before, or it raises;
\* then st.error shows the failure and st.stop() ends the script run, so
\* the function returns nothing (ret = <<>>).
get_connection(succeeds, made) ==
  IF succeeds
  THEN [ret |-> <<made + 1>>, msgs |-> <<>>, stopped |-> FALSE]
  ELSE [ret |-> <<>>,
        msgs |-> <<"error: Failed to connect to Snowflake">>,
        stopped |-> TRUE]

\* mutant: the value the body returns is not stored
cache_resource_NoStore(cached, succeeds, made) ==
  LET body == get_connection(succeeds, made)
  IN  [ret |-> body.ret, cache |-> cached,
       created |-> IF succeeds THEN made + 1 ELSE made,
       msgs |-> body.msgs, stopped |-> body.stopped,
       attempted |-> TRUE, failed |-> ~succeeds]

\* @st.cache_resource around get_connection, as run by the holder of the
\* compute lock: a cached value is returned without running the body; else
\* the body runs and the value it returns is stored; nothing is stored
\* when the body does not return.
cache_resource(cached, succeeds, made) ==
  LET body == get_connection(succeeds, made)
  IN  IF cached # <<>>
      THEN [ret |-> cached, cache |-> cached, created |-> made,
            msgs |-> <<>>, stopped |-> FALSE,
            attempted |-> FALSE, failed |-> FALSE]
      ELSE [ret |-> body.ret, cache |-> body.ret,
            created |-> IF succeeds THEN made + 1 ELSE made,
            msgs |-> body.msgs, stopped |-> body.stopped,
            attempted |-> TRUE, failed |-> ~succeeds]

\* A script run: pc is "start" (main() is about to call get_connection),
\* "miss" (the cache lookup missed, the run waits for the compute lock),
\* "page" (get_connection returned, the page is rendered), "done" (the
\* page is rendered) or "halted" (st.stop() ended the run).
\* conn is the handle main() holds; waited, attempts and failed tell
\* whether this run's lookup missed, how often it ran the body of
\* get_connection and whether the body failed.
StartOfRun ==
  [pc |-> "start", conn |-> <<>>, waited |-> FALSE, attempts |-> 0,
   failed |-> FALSE, msgs |-> <<>>]

AtPage(h) == [StartOfRun EXCEPT !.pc = "page", !.conn = <<h>>]

\* st.session_state: a key that is not set is "absent" / MISSING / Absent
Absent == [kind |-> "absent", rows |-> <<>>, dict |-> EmptyDict]
PyNone == [kind |-> "None", rows |-> <<>>, dict |-> EmptyDict]

NewSession ==
  [page |-> "absent", selected_patient |-> MISSING, search_results |-> Absent]

\* mutant: the defaults assigned whether or not the keys are present
SessionDefaults_Always(sess) ==
  [sess EXCEPT !.page = "search", !.selected_patient = NULL]

\* "Initialize session state" of main()
SessionDefaults(sess) ==
  [sess EXCEPT !.page = IF @ = "absent" THEN "search" ELSE @,
               !.selected_patient = IF @ = MISSING THEN NULL ELSE @]

\* The process has just started: nothing cached, no run has begun
ProcessStart ==
  /\ cache = <<>>
  /\ created = 0
  /\ run = [r \in Runs |-> StartOfRun]
  /\ session = [r \in Runs |-> NewSession]

\* main() of the first script run has obtained the connection and set the
\* session defaults; the other runs have not begun
Connected ==
  /\ cache = <<1>>
  /\ created = 1
  /\ run = [r \in Runs |-> IF r = 1 THEN AtPage(1) ELSE StartOfRun]
  /\ session = [r \in Runs |-> IF r = 1 THEN SessionDefaults(NewSession)
                                ELSE NewSession]

\* conn = get_connection() of main() has run as `call` tells: the run goes
\* on to the session defaults and the page, or it is halted
MainGetConnection(r, call) ==
  /\ cache' = call.cache
  /\ created' = call.created
  /\ run' = [run EXCEPT ![r] =
               [pc |-> IF call.stopped THEN "halted" ELSE "page",
                conn |-> call.ret,
                waited |-> @.waited,
                attempts |-> @.attempts + (IF call.attempted THEN 1 ELSE 0),
                failed |-> @.failed \/ call.failed,
                msgs |-> @.msgs \o call.msgs]]
  /\ session' = IF call.stopped THEN session
                ELSE [session EXCEPT ![r] = SessionDefaults(@)]

\* main() calls get_connection(): the lookup in the cache, made without
\* the compute lock.  A hit returns the cached handle.
CacheLookup(r) ==
  /\ run[r].pc = "start"
  /\ IF cache # <<>>
     THEN MainGetConnection(r, cache_resource(cache, TRUE, created))
     ELSE /\ run' = [run EXCEPT ![r].pc = "miss", ![r].waited = TRUE]
          /\ UNCHANGED <<cache, created, session>>
  /\ UNCHANGED <<clock, statusCall, warehouse, serviceCall>>

\* After a miss the run takes the compute lock, looks the value up again
\* and runs the body if it is still missing; the lock is held to the end.
HandleCacheMiss(r) ==
  /\ run[r].pc = "miss"
  /\ \E succeeds \in BOOLEAN :
       MainGetConnection(r, cache_resource(cache, succeeds, created))
  /\ UNCHANGED <<clock, statusCall, warehouse, serviceCall>>

\* A service call is made by a page render that has made none yet; the
\* next script run starts from scratch.
Idle == op.name = "none"

\* The call is made by a run that renders its page.  Each service function
\* starts with conn = get_connection(): main() has filled the cache before
\* any page is rendered, so this is a hit and conn is the cached handle.
Returns(call, name, args) ==
  \E r \in Runs :
    /\ run[r].pc = "page"
    /\ cache # <<>>
    /\ op' = [name |-> name, run |-> r, conn |-> cache] @@ args
    /\ ret' = call.ret
    /\ msgs' = call.msgs
    /\ exc' = call.exc
    /\ queries' = call.queries

\* The caller is done with the returned value: the script run ends
EndOfRun ==
  /\ op.name # "none"
  /\ op' = [name |-> "none"]
  /\ ret' = NoReturn
  /\ msgs' = <<>>
  /\ exc' = "none"
  /\ queries' = <<>>
  /\ UNCHANGED <<clock, statusCall, warehouse, process, session>>

\* The script run of r is over (its page is rendered, or it was halted):
\* the next interaction of its session starts a new run
Rerun(r) ==
  /\ run[r].pc \in {"done", "halted"}
  /\ run' = [run EXCEPT ![r] = StartOfRun]
  /\ IF op.name # "none" /\ op.run = r
     THEN /\ op' = [name |-> "none"]
          /\ ret' = NoReturn
          /\ msgs' = <<>>
          /\ exc' = "none"
          /\ queries' = <<>>
     ELSE UNCHANGED serviceCall
  /\ UNCHANGED <<clock, statusCall, warehouse, cache, created, session>>

\* WHERE person_id = '{person_id}'
OfPerson(t, p) ==
  LET Mine(r) == r.person_id = p
  IN  SelectSeq(t, Mine)

\* SQL MIN / MAX over a column: NULL values are ignored, NULL if none is left
SqlMin(values) ==
  LET present == values \ {NULL}
  IN  IF present = {} THEN NULL
      ELSE CHOOSE v \in present : \A w \in present : v <= w

SqlMax(values) ==
  LET present == values \ {NULL}
  IN  IF present = {} THEN NULL
      ELSE CHOOSE v \in present : \A w \in present : v >= w

Column(rows, f) == {rows[i][f] : i \in DOMAIN rows}

\* ------------------------------------------------------ patient service
\* int(search_term): surrounding whitespace is stripped, then every
\* character must be a digit (the model's alphabet has no sign and no
\* underscore); the value is read in base 10.  NULL stands for ValueError.
Digits == <<"0", "1", "2", "3", "4", "5", "6", "7", "8", "9">>
IsDigit(c) == \E d \in DOMAIN Digits : Digits[d] = c
DigitValue(c) == (CHOOSE d \in DOMAIN Digits : Digits[d] = c) - 1

RECURSIVE Strip(_)
Strip(t) ==
  IF t = <<>> THEN t
  ELSE IF Head(t) = " " THEN Strip(Tail(t))
  ELSE IF t[Len(t)] = " " THEN Strip(SubSeq(t, 1, Len(t) - 1))
  ELSE t

RECURSIVE Base10(_)
Base10(t) ==
  IF t = <<>> THEN 0
  ELSE 10 * Base10(SubSeq(t, 1, Len(t) - 1)) + DigitValue(t[Len(t)])

ParseInt(t) ==
  LET u == Strip(t)
  IN  IF u # <<>> /\ \A i \in DOMAIN u : IsDigit(u[i])
      THEN Base10(u) ELSE NULL

\* The term is pasted between quotes into the SQL text: with an odd number
\* of quote characters in it the text ends inside a string literal and the
\* query does not compile.
UnbalancedQuotes(t) == Cardinality({i \in DOMAIN t : t[i] = "'"}) % 2 = 1

\* mutant: the string branch taken for every term
search_patient_StringOnly(search_term, throws) ==
  LET ByPersonId(r) == r.person_id = search_term
      q == Executed("search_string",
                    IF UnbalancedQuotes(search_term)
                    THEN throws \cup {"search_string"} ELSE throws)
  IN  IF q.threw
      THEN Outcome(DataFrame(<<>>), <<"error: Error searching for patient">>,
                   "none", <<q>>)
      ELSE Outcome(DataFrame(SelectSeq(persons, ByPersonId)), <<>>, "none",
                   <<q>>)

search_patient(search_term, throws) ==
  LET search_int == ParseInt(search_term)
      Numeric(r) == r.sk_patient_id = search_int \/ r.person_id = search_term
      ByPersonId(r) == r.person_id = search_term
      q == Executed(IF search_int # NULL THEN "search_numeric"
                    ELSE "search_string",
                    IF UnbalancedQuotes(search_term)
                    THEN throws \cup {"search_string"} ELSE throws)
      result == IF search_int # NULL THEN SelectSeq(persons, Numeric)
                ELSE SelectSeq(persons, ByPersonId)
  IN  IF q.threw
      THEN Outcome(DataFrame(<<>>), <<"error: Error searching for patient">>,
                   "none", <<q>>)
      ELSE Outcome(DataFrame(result), <<>>, "none", <<q>>)

\* mutant: the failed query issued a second time
get_patient_demographics_Retry(sk_patient_id, throws) ==
  LET BySk(r) == r.sk_patient_id = sk_patient_id
      q == Executed("demographics", throws)
      result == SelectSeq(persons, BySk)
  IN  IF q.threw
      THEN Outcome(DataFrame(<<>>),
                   <<"error: Error loading patient demographics">>,
                   "none", <<q, q>>)
      ELSE IF result = <<>>
      THEN Outcome(DataFrame(<<>>), <<"error: Patient not found">>,
                   "none", <<q>>)
      ELSE Outcome(DataFrame(result), <<>>, "none", <<q>>)

get_patient_demographics(sk_patient_id, throws) ==
  LET BySk(r) == r.sk_patient_id = sk_patient_id
      q == Executed("demographics", throws)
      result == SelectSeq(persons, BySk)
  IN  IF q.threw
      THEN Outcome(DataFrame(<<>>),
                   <<"error: Error loading patient demographics">>,
                   "none", <<q>>)
      ELSE IF result = <<>>
      THEN Outcome(DataFrame(<<>>), <<"error: Patient not found">>,
                   "none", <<q>>)
      ELSE Outcome(DataFrame(result), <<>>, "none", <<q>>)

\* The orders an ORDER BY may return: the sequences that hold every row of
\* rows once, rows[i] standing before rows[j] only if precedes[i, j]
Orderings(rows, precedes) ==
  LET n == Len(rows)
  IN  {[i \in 1..n |-> rows[f[i]]] :
         f \in {g \in [1..n -> 1..n] :
                  /\ \A i, j \in 1..n : i # j => g[i] # g[j]
                  /\ \A i \in 1..n : \A j \in (i + 1)..n :
                       precedes[g[i], g[j]]}}

\* ORDER BY column DESC on a date column: NULL sorts first
DescBy(rows, f) ==
  [i, j \in DOMAIN rows |->
     rows[i][f] = NULL \/ (rows[j][f] # NULL /\ rows[i][f] >= rows[j][f])]

\* mutant: no ORDER BY clause, and the history query issued even when the
\* lookup finds no person
get_patient_registration_history_Unordered(sk_patient_id, throws) ==
  LET BySk(r) == r.sk_patient_id = sk_patient_id
      lookup == Executed("person_lookup", throws)
      person_lookup == SelectSeq(persons, BySk)
      q == Executed("registration_history", throws)
      Mine(r) == person_lookup # <<>> /\ r.person_id = person_lookup[1].person_id
  IN  IF lookup.threw
      THEN {Outcome(NoReturn, <<>>, "Exception", <<lookup>>)}
      ELSE IF q.threw
      THEN {Outcome(DataFrame(<<>>),
                    <<"warning: Could not load registration history">>,
                    "none", <<lookup, q>>)}
      ELSE {Outcome(DataFrame(SelectSeq(history, Mine)), <<>>, "none",
                    <<lookup, q>>)}

\* The person_id lookup that precedes the main query is outside the try
\* block: when it throws the exception leaves the function.
get_patient_registration_history(sk_patient_id, throws) ==
  LET BySk(r) == r.sk_patient_id = sk_patient_id
      lookup == Executed("person_lookup", throws)
      person_lookup == SelectSeq(persons, BySk)
      q == Executed("registration_history", throws)
      person_id == person_lookup[1].person_id
      Mine(r) == r.person_id = person_id
      matched == SelectSeq(history, Mine)
  IN  IF lookup.threw
      THEN {Outcome(NoReturn, <<>>, "Exception", <<lookup>>)}
      ELSE IF person_lookup = <<>>
      THEN {Outcome(DataFrame(<<>>), <<>>, "none", <<lookup>>)}
      ELSE IF q.threw
      THEN {Outcome(DataFrame(<<>>),
                    <<"warning: Could not load registration history">>,
                    "none", <<lookup, q>>)}
      ELSE {Outcome(DataFrame(result), <<>>, "none", <<lookup, q>>) :
              result \in Orderings(matched,
                                   DescBy(matched, "effective_start_date"))}

\* ORDER BY is_qof DESC, clinical_domain, condition_name
LtcOrder(rows) ==
  [i, j \in DOMAIN rows |->
     LET a == rows[i]
         b == rows[j]
     IN  \/ a.is_qof /\ ~b.is_qof
         \/ /\ a.is_qof = b.is_qof
            /\ \/ a.clinical_domain < b.clinical_domain
               \/ /\ a.clinical_domain = b.clinical_domain
                  /\ a.condition_name <= b.condition_name]

get_patient_ltc_summary(sk_patient_id, throws) ==
  LET BySk(r) == r.sk_patient_id = sk_patient_id
      lookup == Executed("person_lookup", throws)
      person_lookup == SelectSeq(persons, BySk)
      q == Executed("ltc_summary", throws)
      person_id == person_lookup[1].person_id
      OnRegister(r) == r.person_id = person_id /\ r.is_on_register
      matched == SelectSeq(ltc, OnRegister)
  IN  IF lookup.threw
      THEN {Outcome(NoReturn, <<>>, "Exception", <<lookup>>)}
      ELSE IF person_lookup = <<>>
      THEN {Outcome(DataFrame(<<>>), <<>>, "none", <<lookup>>)}
      ELSE IF q.threw
      THEN {Outcome(DataFrame(<<>>),
                    <<"warning: Could not load LTC summary">>,
                    "none", <<lookup, q>>)}
      ELSE {Outcome(DataFrame(result), <<>>, "none", <<lookup, q>>) :
              result \in Orderings(matched, LtcOrder(matched))}

SkIds == {1, 2}
\* search terms: empty, blank, digit strings, natural identifiers, a quote
SearchTerms ==
  {<<>>, <<" ">>, <<"1">>, <<"2">>, <<"0", "2">>, PersonA, <<"'">>,
   <<"1", "2", "3", "4", "5">>, <<"A", "B", "C", "1", "2", "3">>}

SearchPatient ==
  /\ Idle
  /\ \E t \in SearchTerms, throws \in {{}, {"search_numeric", "search_string"}} :
    /\ Returns(search_patient(t, throws), "search_patient",
               [search_term |-> t])
    /\ UNCHANGED <<clock, statusCall, warehouse, process, session>>

\* render_search(): the form was submitted or not, with the term typed.
\* The result holds the outcome of the search_patient call, if one was
\* made, with the warning of the page added, and the search_results the
\* page leaves in the session.
render_search(sess, search_clicked, search_term, throws) ==
  LET kept == IF sess.search_results = Absent THEN PyNone
              ELSE sess.search_results
      call == search_patient(search_term, throws)
  IN  IF search_clicked /\ search_term # <<>>
      THEN IF call.ret.rows = <<>>
           THEN [call |-> [call EXCEPT !.msgs =
                             @ \o <<"warning: No patient found with identifier">>],
                 search_results |-> PyNone]
           ELSE [call |-> call, search_results |-> call.ret]
      ELSE IF search_clicked
      THEN [call |-> Outcome(NoReturn,
                             <<"warning: Please enter a patient identifier to search">>,
                             "none", <<>>),
            search_results |-> PyNone]
      ELSE [call |-> Outcome(NoReturn, <<>>, "none", <<>>),
            search_results |-> kept]

\* mutant: the else branch calls render_search and leaves the page value
Route_NoReset(sess) ==
  IF sess.page \in {"search", "patient_summary", "observations", "medications"}
  THEN [renderer |-> sess.page, sess |-> sess]
  ELSE [renderer |-> "search", sess |-> sess]

\* "Page routing" of main(): the page module whose renderer is called, and
\* the session as the renderer finds it.  A page value that is none of the
\* four routed ones is replaced by 'search'.
Route(sess) ==
  IF sess.page \in {"search", "patient_summary", "observations", "medications"}
  THEN [renderer |-> sess.page, sess |-> sess]
  ELSE [renderer |-> "search", sess |-> [sess EXCEPT !.page = "search"]]

\* render_patient_card(): the card of one found person, with its View
\* Record button
render_patient_card(sess, patient_row, view_clicked) ==
  IF view_clicked
  THEN [sess EXCEPT !.page = "patient_summary",
                    !.selected_patient = patient_row.sk_patient_id]
  ELSE sess

\* The script run r renders the search page.  One widget at most reports
\* a click in a run: the form's Search button, or the View Record button
\* of card `view` of the results shown (view = 0: none).  The term and the
\* state of the warehouse are told apart only in a run that searches.
RenderSearch(r) ==
  /\ Idle
  /\ run[r].pc = "page"
  /\ Route(session[r]).renderer = "search"
  /\ cache # <<>>
  /\ \E search_clicked \in BOOLEAN :
     \E t \in IF search_clicked THEN SearchTerms ELSE {<<>>},
        throws \in IF search_clicked
                   THEN {{}, {"search_numeric", "search_string"}} ELSE {{}} :
       LET sess == Route(session[r]).sess
           page == render_search(sess, search_clicked, t, throws)
           shown == page.search_results.rows
           searched == [sess EXCEPT !.search_results = page.search_results]
       IN  \E view \in 0..Len(shown) :
             /\ search_clicked => view = 0
             /\ op' = [name |-> "render_search", run |-> r, conn |-> cache,
                       search_clicked |-> search_clicked, search_term |-> t,
                       outage |-> throws # {},
                       before |-> session[r], shown |-> shown, view |-> view]
             /\ ret' = page.call.ret
             /\ msgs' = page.call.msgs
             /\ exc' = page.call.exc
             /\ queries' = page.call.queries
             /\ session' = [session EXCEPT ![r] =
                              IF view = 0 THEN searched
                              ELSE render_patient_card(searched, shown[view],
                                                       TRUE)]
  /\ run' = [run EXCEPT ![r].pc = "done"]
  /\ UNCHANGED <<clock, statusCall, warehouse, cache, created>>

GetPatientDemographics ==
  /\ Idle
  /\ \E sk \in SkIds, throws \in SUBSET {"demographics"} :
    /\ Returns(get_patient_demographics(sk, throws),
               "get_patient_demographics", [sk_patient_id |-> sk])
    /\ UNCHANGED <<clock, statusCall, warehouse, process, session>>

GetPatientRegistrationHistory ==
  /\ Idle
  /\ \E sk \in SkIds, throws \in SUBSET {"person_lookup", "registration_history"} :
    \E call \in get_patient_registration_history(sk, throws) :
      /\ Returns(call, "get_patient_registration_history",
                 [sk_patient_id |-> sk])
      /\ UNCHANGED <<clock, statusCall, warehouse, process, session>>

GetPatientLtcSummary ==
  /\ Idle
  /\ \E sk \in SkIds, throws \in SUBSET {"person_lookup", "ltc_summary"} :
    \E call \in get_patient_ltc_summary(sk, throws) :
      /\ Returns(call, "get_patient_ltc_summary", [sk_patient_id |-> sk])
      /\ UNCHANGED <<clock, statusCall, warehouse, process, session>>

\* ------------------------------------------------------- record service
\* a NULL text column
NullText == <<"<null>">>

Lower(c) == IF c = "A" THEN "a" ELSE IF c = "B" THEN "b" ELSE c
LowerText(t) == [i \in DOMAIN t |-> Lower(t[i])]

\* text ILIKE pattern: in the pattern % stands for any run of characters
\* and _ for any one character, the others match themselves whatever
\* their case
RECURSIVE Like(_, _)
Like(text, pattern) ==
  IF pattern = <<>> THEN text = <<>>
  ELSE IF Head(pattern) = "%"
  THEN Like(text, Tail(pattern)) \/ (text # <<>> /\ Like(Tail(text), pattern))
  ELSE /\ text # <<>>
       /\ Head(pattern) = "_" \/ Lower(Head(pattern)) = Lower(Head(text))
       /\ Like(Tail(text), Tail(pattern))

\* text ILIKE '%term%': search_pattern is the term as typed, pasted
\* between two % signs
ILike(text, term) ==
  text # NullText /\ Like(text, <<"%">> \o term \o <<"%">>)

\* "if search_term and search_term.strip()"
HasSearch(term) == term # <<>> /\ Strip(term) # <<>>

\* mutant: no LIMIT clause
Limit_None(rows, n) == rows

\* LIMIT n
Limit(rows, n) == IF Len(rows) <= n THEN rows ELSE SubSeq(rows, 1, n)

ObservationSummaryZero ==
  [total_observations |-> 0, earliest_date |-> NULL,
   most_recent_date |-> NULL]

\* The one row of the aggregate query of get_observation_summary
ObservationSummaryQuery(person_id) ==
  LET mine == OfPerson(observations, person_id)
  IN  <<[TOTAL_OBSERVATIONS |-> Len(mine),
         EARLIEST_DATE |-> SqlMin(Column(mine, "clinical_effective_date")),
         MOST_RECENT_DATE |-> SqlMax(Column(mine, "clinical_effective_date"))]>>

get_observation_summary(person_id, throws) ==
  LET q == Executed("observation_summary", throws)
      result == ObservationSummaryQuery(person_id)
  IN  IF q.threw
      THEN Outcome(Dict(ObservationSummaryZero),
                   <<"error: Error loading observation summary">>,
                   "none", <<q>>)
      ELSE IF result = <<>>
      THEN Outcome(Dict(ObservationSummaryZero), <<>>, "none", <<q>>)
      ELSE Outcome(Dict([total_observations |-> result[1].TOTAL_OBSERVATIONS,
                         earliest_date |-> result[1].EARLIEST_DATE,
                         most_recent_date |-> result[1].MOST_RECENT_DATE]),
                   <<>>, "none", <<q>>)

\* The WHERE clause of get_patient_observations and get_patient_medications
RecordFilter(r, person_id, date_from, date_to, search_term) ==
  /\ r.person_id = person_id
  /\ date_from # NULL =>
       r.clinical_effective_date # NULL /\ r.clinical_effective_date >= date_from
  /\ date_to # NULL =>
       r.clinical_effective_date # NULL /\ r.clinical_effective_date <= date_to
  /\ HasSearch(search_term) =>
       \/ ILike(r.mapped_concept_code, search_term)
       \/ ILike(r.mapped_concept_display, search_term)

get_patient_observations(person_id, date_from, date_to, search_term, throws) ==
  LET q == Executed("observations",
                    IF HasSearch(search_term) /\ UnbalancedQuotes(search_term)
                    THEN throws \cup {"observations"} ELSE throws)
      Match(r) == RecordFilter(r, person_id, date_from, date_to, search_term)
      matched == SelectSeq(observations, Match)
  IN  IF q.threw
      THEN {Outcome(DataFrame(<<>>), <<"error: Error loading observations">>,
                    "none", <<q>>)}
      ELSE {Outcome(DataFrame(Limit(result, MAX_OBSERVATIONS)), <<>>, "none",
                    <<q>>) :
              result \in Orderings(matched, DescBy(matched, "clinical_effective_date"))}

\* The columns of a get_patient_medications row: the id, the filter
\* columns and those calculate_medication_status reads
MedicationRow(o) ==
  [ID |-> o.id,
   MAPPED_CONCEPT_CODE |-> o.mapped_concept_code,
   MAPPED_CONCEPT_DISPLAY |-> o.mapped_concept_display,
   CANCELLATION_DATE |-> o.cancellation_date,
   EXPIRY_DATE |-> o.expiry_date,
   STATEMENT_IS_ACTIVE |-> o.is_active,
   CLINICAL_EFFECTIVE_DATE |-> o.clinical_effective_date,
   DURATION_DAYS |-> o.duration_days]

\* The function takes no current_only parameter: a call that passes one
\* raises TypeError before the body runs.
get_patient_medications(person_id, date_from, date_to, search_term, kwargs, throws) ==
  LET q == Executed("medications",
                    IF HasSearch(search_term) /\ UnbalancedQuotes(search_term)
                    THEN throws \cup {"medications"} ELSE throws)
      Match(r) == RecordFilter(r, person_id, date_from, date_to, search_term)
      matched == SelectSeq(orders, Match)
  IN  IF kwargs # {}
      THEN {Outcome(NoReturn, <<>>, "TypeError", <<>>)}
      ELSE IF q.threw
      THEN {Outcome(DataFrame(<<>>), <<"error: Error loading medications">>,
                    "none", <<q>>)}
      ELSE {Outcome(DataFrame(Limit([i \in DOMAIN result |->
                                       MedicationRow(result[i])],
                                    MAX_OBSERVATIONS)),
                    <<>>, "none", <<q>>) :
              result \in Orderings(matched, DescBy(matched, "clinical_effective_date"))}

\* config.DATE_RANGE_OPTIONS and config.PAST_MEDICATIONS_DATE_RANGE_OPTIONS
DATE_RANGE_OPTIONS ==
  [l \in {"Last 12 months", "All time"} |->
     IF l = "Last 12 months" THEN 365 ELSE NULL]

PAST_MEDICATIONS_DATE_RANGE_OPTIONS ==
  [l \in {"90 days", "1 year", "All"} |->
     IF l = "90 days" THEN 90 ELSE IF l = "1 year" THEN 365 ELSE NULL]

\* dict.get(key): None when the key is absent
Get(d, k) == IF k \in DOMAIN d THEN d[k] ELSE NULL

\* the returned tuple (date_from, date_to)
DateRange(date_from, date_to) ==
  Dict([date_from |-> date_from, date_to |-> date_to])

\* mutant: the label looked up in both option tables
calculate_date_range_AnyTable(range_option, today) ==
  LET days == IF range_option \in DOMAIN DATE_RANGE_OPTIONS
              THEN DATE_RANGE_OPTIONS[range_option]
              ELSE Get(PAST_MEDICATIONS_DATE_RANGE_OPTIONS, range_option)
  IN  IF days = NULL THEN DateRange(NULL, NULL)
      ELSE DateRange(today - days, today)

\* today is datetime.now().date()
calculate_date_range(range_option, today) ==
  LET days == Get(DATE_RANGE_OPTIONS, range_option)
  IN  IF days = NULL THEN DateRange(NULL, NULL)
      ELSE DateRange(today - days, today)

\* mutant: the days added in place of subtracted
calculate_past_medications_date_range_Plus(range_option, today) ==
  LET days == Get(PAST_MEDICATIONS_DATE_RANGE_OPTIONS, range_option)
  IN  IF days = NULL THEN DateRange(NULL, NULL)
      ELSE DateRange(today + days, today)

calculate_past_medications_date_range(range_option, today) ==
  LET days == Get(PAST_MEDICATIONS_DATE_RANGE_OPTIONS, range_option)
  IN  IF days = NULL THEN DateRange(NULL, NULL)
      ELSE DateRange(today - days, today)

\* the labels of both tables and one of neither
RangeLabels ==
  DOMAIN DATE_RANGE_OPTIONS \cup DOMAIN PAST_MEDICATIONS_DATE_RANGE_OPTIONS
    \cup {"Last week"}

\* The one row of the aggregate query of get_appointment_summary
AppointmentSummaryQuery(person_id) ==
  LET mine == OfPerson(appointments, person_id)
  IN  <<[TOTAL_APPOINTMENTS |-> Len(mine),
         EARLIEST_DATE |-> SqlMin(Column(mine, "start_date")),
         MOST_RECENT_DATE |-> SqlMax(Column(mine, "start_date")),
         APPOINTMENTS_LAST_12M |->
           Cardinality({i \in DOMAIN mine :
             /\ mine[i].start_date # NULL
             /\ mine[i].start_date >= nowDay - YearDays})]>>

get_appointment_summary(person_id, throws) ==
  LET q == Executed("appointment_summary", throws)
      result == AppointmentSummaryQuery(person_id)
  IN  IF q.threw
      THEN Outcome(Dict([total_appointments |-> 0, earliest_date |-> NULL,
                         most_recent_date |-> NULL]),
                   <<"error: Error loading appointment summary">>,
                   "none", <<q>>)
      ELSE IF result = <<>>
      THEN Outcome(Dict([total_appointments |-> 0,
                         appointments_last_12m |-> 0,
                         earliest_date |-> NULL, most_recent_date |-> NULL]),
                   <<>>, "none", <<q>>)
      ELSE Outcome(Dict([total_appointments |-> result[1].TOTAL_APPOINTMENTS,
                         appointments_last_12m |->
                           result[1].APPOINTMENTS_LAST_12M,
                         earliest_date |-> result[1].EARLIEST_DATE,
                         most_recent_date |-> result[1].MOST_RECENT_DATE]),
                   <<>>, "none", <<q>>)

\* mutant: start_date > date_from in place of >=
AppointmentFilter_StrictFrom(a, person_id, date_from, date_to, include_future) ==
  /\ a.person_id = person_id
  /\ IF include_future /\ date_from # NULL
     THEN /\ a.start_date # NULL
          /\ a.start_date > date_from \/ a.start_date > nowDay
     ELSE date_from # NULL =>
            a.start_date # NULL /\ a.start_date > date_from
  /\ date_to # NULL => a.start_date # NULL /\ a.start_date <= date_to

\* mutant: start_date < CURRENT_DATE() in place of > in the OR branch
AppointmentFilter_PastOr(a, person_id, date_from, date_to, include_future) ==
  /\ a.person_id = person_id
  /\ IF include_future /\ date_from # NULL
     THEN /\ a.start_date # NULL
          /\ a.start_date >= date_from \/ a.start_date < nowDay
     ELSE date_from # NULL =>
            a.start_date # NULL /\ a.start_date >= date_from
  /\ date_to # NULL => a.start_date # NULL /\ a.start_date <= date_to

\* The WHERE clause of get_patient_appointments
AppointmentFilter(a, person_id, date_from, date_to, include_future) ==
  /\ a.person_id = person_id
  /\ IF include_future /\ date_from # NULL
     THEN /\ a.start_date # NULL
          /\ a.start_date >= date_from \/ a.start_date > nowDay
     ELSE date_from # NULL =>
            a.start_date # NULL /\ a.start_date >= date_from
  /\ date_to # NULL => a.start_date # NULL /\ a.start_date <= date_to

\* The selected columns, with the computed is_future
AppointmentRow(a) ==
  [id |-> a.id, person_id |-> a.person_id, start_date |-> a.start_date,
   is_future |-> a.start_date # NULL /\ a.start_date > nowDay]

get_patient_appointments(person_id, date_from, date_to, include_future, throws) ==
  LET q == Executed("appointments", throws)
      Match(a) ==
        AppointmentFilter(a, person_id, date_from, date_to, include_future)
      matched == SelectSeq(appointments, Match)
  IN  IF q.threw
      THEN {Outcome(DataFrame(<<>>), <<"error: Error loading appointments">>,
                    "none", <<q>>)}
      ELSE {Outcome(DataFrame(Limit([i \in DOMAIN result |->
                                       AppointmentRow(result[i])],
                                    MAX_OBSERVATIONS)),
                    <<>>, "none", <<q>>) :
              result \in Orderings(matched, DescBy(matched, "start_date"))}

DateArgs == Days \cup {NULL}
\* no term, a blank one, a plain one, one that is a LIKE wildcard and one
\* that is a quote
RecordSearchTerms ==
  {<<>>, <<" ">>, <<"B">>, <<"_">>, <<"'">>}

CalculateDateRange ==
  /\ Idle
  /\ \E l \in RangeLabels :
    /\ Returns(Outcome(calculate_date_range(l, nowDay), <<>>, "none", <<>>),
               "calculate_date_range", [range_option |-> l])
    /\ UNCHANGED <<clock, statusCall, warehouse, process, session>>

CalculatePastMedicationsDateRange ==
  /\ Idle
  /\ \E l \in RangeLabels :
    /\ Returns(Outcome(calculate_past_medications_date_range(l, nowDay),
                       <<>>, "none", <<>>),
               "calculate_past_medications_date_range", [range_option |-> l])
    /\ UNCHANGED <<clock, statusCall, warehouse, process, session>>

GetObservationSummary ==
  /\ Idle
  /\ \E p \in PersonIds, throws \in SUBSET {"observation_summary"} :
    /\ Returns(get_observation_summary(p, throws), "get_observation_summary",
               [person_id |-> p])
    /\ UNCHANGED <<clock, statusCall, warehouse, process, session>>

GetAppointmentSummary ==
  /\ Idle
  /\ \E p \in PersonIds, throws \in SUBSET {"appointment_summary"} :
    /\ Returns(get_appointment_summary(p, throws), "get_appointment_summary",
               [person_id |-> p])
    /\ UNCHANGED <<clock, statusCall, warehouse, process, session>>

\* mutant: the returned table saved over the observation table
GetPatientObservations_Saved ==
  /\ Idle
  /\ \E p \in PersonIds, date_from \in DateArgs, date_to \in DateArgs,
     t \in RecordSearchTerms, throws \in SUBSET {"observations"} :
    \E call \in get_patient_observations(p, date_from, date_to, t, throws) :
      /\ Returns(call, "get_patient_observations",
                 [person_id |-> p, date_from |-> date_from,
                  date_to |-> date_to, search_term |-> t])
      /\ observations' = call.ret.rows
      /\ UNCHANGED <<clock, statusCall, persons, history, ltc, orders,
                     appointments, process, session>>

GetPatientObservations ==
  /\ Idle
  /\ \E p \in PersonIds, date_from \in DateArgs, date_to \in DateArgs,
     t \in RecordSearchTerms, throws \in SUBSET {"observations"} :
    \E call \in get_patient_observations(p, date_from, date_to, t, throws) :
      /\ Returns(call, "get_patient_observations",
                 [person_id |-> p, date_from |-> date_from,
                  date_to |-> date_to, search_term |-> t])
      /\ UNCHANGED <<clock, statusCall, warehouse, process, session>>

GetPatientMedications ==
  /\ Idle
  /\ \E p \in PersonIds, date_from \in DateArgs, date_to \in DateArgs,
     t \in RecordSearchTerms, kwargs \in SUBSET {"current_only"},
     throws \in SUBSET {"medications"} :
    \E call \in get_patient_medications(p, date_from, date_to, t, kwargs,
                                        throws) :
      /\ Returns(call, "get_patient_medications",
                 [person_id |-> p, date_from |-> date_from,
                  date_to |-> date_to, search_term |-> t, kwargs |-> kwargs])
      /\ UNCHANGED <<clock, statusCall, warehouse, process, session>>

GetPatientAppointments ==
  /\ Idle
  /\ \E p \in PersonIds, date_from \in DateArgs, date_to \in DateArgs,
     include_future \in BOOLEAN, throws \in SUBSET {"appointments"} :
    \E call \in get_patient_appointments(p, date_from, date_to,
                                         include_future, throws) :
      /\ Returns(call, "get_patient_appointments",
                 [person_id |-> p, date_from |-> date_from,
                  date_to |-> date_to, include_future |-> include_future])
      /\ UNCHANGED <<clock, statusCall, warehouse, process, session>>

\* ------------------------------------------------- medication summary
\* The CASE expression of the active_medications count: TRUE when the
\* order is counted (the CASE gives 1), FALSE when it gives NULL.
\* Comparisons with NULL are not true; CURRENT_DATE() is the current date.
ActiveCase(o, currentDate) ==
  IF o.cancellation_date # NULL /\ o.cancellation_date <= currentDate
    THEN FALSE
  ELSE IF o.expiry_date # NULL /\ o.expiry_date < currentDate THEN FALSE
  ELSE IF o.is_active = "false" THEN FALSE
  ELSE IF /\ o.duration_days # NULL
          /\ o.clinical_effective_date # NULL
          /\ o.clinical_effective_date + o.duration_days > currentDate
    THEN TRUE
  ELSE FALSE

\* The one row of the aggregate query of get_medication_summary
MedicationSummaryQuery(person_id) ==
  LET mine == OfPerson(orders, person_id)
  IN  <<[TOTAL_MEDICATIONS |-> Len(mine),
         EARLIEST_DATE |-> SqlMin(Column(mine, "clinical_effective_date")),
         MOST_RECENT_DATE |-> SqlMax(Column(mine, "clinical_effective_date")),
         ACTIVE_MEDICATIONS |->
           Cardinality({i \in DOMAIN mine : ActiveCase(mine[i], nowDay)})]>>

MedicationSummaryZero ==
  [total_medications |-> 0, active_medications |-> 0,
   earliest_date |-> NULL, most_recent_date |-> NULL]

get_medication_summary(person_id, throws) ==
  LET q == Executed("medication_summary", throws)
      result == MedicationSummaryQuery(person_id)
  IN  IF q.threw
      THEN Outcome(Dict(MedicationSummaryZero),
                   <<"error: Error loading medication summary">>,
                   "none", <<q>>)
      ELSE IF result = <<>>
      THEN Outcome(Dict(MedicationSummaryZero), <<>>, "none", <<q>>)
      ELSE Outcome(Dict([total_medications |-> result[1].TOTAL_MEDICATIONS,
                         active_medications |-> result[1].ACTIVE_MEDICATIONS,
                         earliest_date |-> result[1].EARLIEST_DATE,
                         most_recent_date |-> result[1].MOST_RECENT_DATE]),
                   <<>>, "none", <<q>>)

\* The keys render_summary_metrics reads from the record of each summary
\* operation
SummaryKeysRead ==
  [get_observation_summary |-> {"total_observations", "most_recent_date"},
   get_medication_summary |->
     {"current_medications", "total_medications", "most_recent_date"},
   get_appointment_summary |->
     {"appointments_last_12m", "total_appointments", "most_recent_date"}]

GetMedicationSummary ==
  /\ Idle
  /\ \E p \in PersonIds, throws \in SUBSET {"medication_summary"} :
    /\ Returns(get_medication_summary(p, throws), "get_medication_summary",
               [person_id |-> p])
    /\ UNCHANGED <<clock, statusCall, warehouse, process, session>>

\* ---------------------------------------------------------------- pages
\* str() of a surrogate key, as the f-strings of the queries paste it
RECURSIVE Str(_)
Str(n) ==
  IF n < 10 THEN <<Digits[n + 1]>>
  ELSE Str(n \div 10) \o <<Digits[(n % 10) + 1]>>

\* "if 'selected_patient' not in st.session_state or not
\* st.session_state.selected_patient"
NoPatientSelected(sess) == sess.selected_patient \in {MISSING, NULL, 0}

\* mutant: Back to Search clears the selected patient as well
BackToSearch_Clears(sess) ==
  [sess EXCEPT !.page = "search", !.search_results = PyNone,
               !.selected_patient = NULL]

\* The "← Back to Search" button of the patient pages
BackToSearch(sess) ==
  [sess EXCEPT !.page = "search", !.search_results = PyNone]

\* What a page render leaves: the session, the button that reported its
\* click in the run ("none": no button the run reached was clicked), the
\* messages shown, the exception that ended the run, the queries made and
\* the table shown
PageResult(sess, clicked, m, e, qs, shown) ==
  [sess |-> sess, clicked |-> clicked, msgs |-> m, exc |-> e,
   queries |-> qs, ret |-> shown]

NoPatientWarning == <<"warning: No patient selected">>

\* render_patient_summary().  selected_patient, a surrogate key, is the
\* person_id handed to the three summary operations.  render_summary_metrics
\* reads its keys from the summary records before the View buttons are
\* drawn; the sections below the buttons load the registration history and
\* the long-term conditions.
render_patient_summary(sess, clicked, throws) ==
  LET person_id == sess.selected_patient
      demographics == get_patient_demographics(person_id, throws)
      obs_summary == get_observation_summary(Str(person_id), throws)
      med_summary == get_medication_summary(Str(person_id), throws)
      appt_summary == get_appointment_summary(Str(person_id), throws)
      loaded == demographics.queries \o obs_summary.queries
                  \o med_summary.queries \o appt_summary.queries
      shown == obs_summary.msgs \o med_summary.msgs \o appt_summary.msgs
      metrics ==
        /\ SummaryKeysRead.get_observation_summary
             \subseteq DOMAIN obs_summary.ret.dict
        /\ SummaryKeysRead.get_medication_summary
             \subseteq DOMAIN med_summary.ret.dict
        /\ SummaryKeysRead.get_appointment_summary
             \subseteq DOMAIN appt_summary.ret.dict
      periods == CHOOSE c \in get_patient_registration_history(person_id,
                                                               throws) : TRUE
      ltc_data == CHOOSE c \in get_patient_ltc_summary(person_id, throws) : TRUE
  IN  IF NoPatientSelected(sess)
      THEN IF clicked = "Back to Search"
           THEN PageResult(BackToSearch(sess), clicked, NoPatientWarning,
                           "none", <<>>, NoReturn)
           ELSE PageResult(sess, "none", NoPatientWarning, "none", <<>>,
                           NoReturn)
      ELSE IF demographics.ret.rows = <<>>
      THEN PageResult(sess, "none",
                      demographics.msgs
                        \o <<"error: Failed to load patient demographics">>,
                      "none", demographics.queries, NoReturn)
      ELSE IF clicked = "Back to Search"
      THEN PageResult(BackToSearch(sess), clicked, shown, "none", loaded,
                      NoReturn)
      ELSE IF ~metrics
      THEN PageResult(sess, "none", shown, "KeyError", loaded, NoReturn)
      ELSE IF clicked \in {"View Observations", "View Medications",
                           "View Appointments"}
      THEN PageResult([sess EXCEPT !.page =
                         CASE clicked = "View Observations" -> "observations"
                           [] clicked = "View Medications" -> "medications"
                           [] clicked = "View Appointments" -> "appointments"],
                      clicked, shown, "none", loaded, NoReturn)
      ELSE IF periods.exc # "none"
      THEN PageResult(sess, "none", shown, periods.exc,
                      loaded \o periods.queries, NoReturn)
      ELSE PageResult(sess, "none", shown \o periods.msgs \o ltc_data.msgs,
                      ltc_data.exc,
                      loaded \o periods.queries \o ltc_data.queries, NoReturn)

\* The guard and the two navigation buttons that open render_observations
\* and render_medications: the session they leave, or `sess` itself when
\* the run goes on to the body of the page.  The Back to Search button of
\* the guard leaves search_results as they are.
PatientPageButtons(sess, clicked) ==
  IF NoPatientSelected(sess)
  THEN IF clicked = "Back to Search"
       THEN [sess EXCEPT !.page = "search"] ELSE sess
  ELSE IF clicked = "Back to Summary"
  THEN [sess EXCEPT !.page = "patient_summary"]
  ELSE IF clicked = "Back to Search" THEN BackToSearch(sess)
  ELSE sess

\* render_observations(): the selected range label and the typed term are
\* widget values
render_observations(sess, clicked, date_range, search_term, throws) ==
  LET person_id == Str(sess.selected_patient)
      range == calculate_date_range(date_range, nowDay).dict
  IN  IF NoPatientSelected(sess)
      THEN {PageResult(PatientPageButtons(sess, clicked),
                       IF clicked = "Back to Search" THEN clicked ELSE "none",
                       NoPatientWarning, "none", <<>>, NoReturn)}
      ELSE IF clicked \in {"Back to Summary", "Back to Search"}
      THEN {PageResult(PatientPageButtons(sess, clicked), clicked, <<>>,
                       "none", <<>>, NoReturn)}
      ELSE {PageResult(sess, "none", call.msgs, call.exc, call.queries,
                       call.ret) :
              call \in get_patient_observations(person_id, range.date_from,
                                                range.date_to, search_term,
                                                throws)}

\* "Filter out current medications from past medications": the rows whose
\* recalculated status is one of Cancelled, Expired, Past, Unknown
PastMedications(rows, today) ==
  LET NotCurrent(m) ==
        calculate_medication_status(m, today).ret
          \in {"Cancelled", "Expired", "Past", "Unknown"}
  IN  SelectSeq(rows, NotCurrent)

\* render_medications(): both calls of get_patient_medications pass
\* current_only; the first one is made before the Past Medications section
render_medications(sess, clicked, search_term, date_range, throws) ==
  LET person_id == Str(sess.selected_patient)
      range == calculate_past_medications_date_range(date_range, nowDay).dict
      today == Now(nowDay, nowTick)
  IN  IF NoPatientSelected(sess)
      THEN {PageResult(PatientPageButtons(sess, clicked),
                       IF clicked = "Back to Search" THEN clicked ELSE "none",
                       NoPatientWarning, "none", <<>>, NoReturn)}
      ELSE IF clicked \in {"Back to Summary", "Back to Search"}
      THEN {PageResult(PatientPageButtons(sess, clicked), clicked, <<>>,
                       "none", <<>>, NoReturn)}
      ELSE UNION {
             IF current.exc # "none"
             THEN {PageResult(sess, "none", current.msgs, current.exc,
                              current.queries, NoReturn)}
             ELSE {IF past.exc # "none"
                   THEN PageResult(sess, "none", current.msgs \o past.msgs,
                                   past.exc, current.queries \o past.queries,
                                   NoReturn)
                   ELSE PageResult(sess, "none", current.msgs \o past.msgs,
                                   "none", current.queries \o past.queries,
                                   DataFrame(PastMedications(past.ret.rows,
                                                             today))) :
                     past \in get_patient_medications(
                                person_id, range.date_from, range.date_to,
                                search_term, {"current_only"}, throws)} :
             current \in get_patient_medications(person_id, NULL, NULL,
                                                 search_term, {"current_only"},
                                                 throws)}

\* The buttons of the patient pages, and "none" for a run no button began
Buttons ==
  {"none", "Back to Search", "Back to Summary", "View Observations",
   "View Medications", "View Appointments"}

\* The run r has rendered its page as `page` tells: an uncaught exception
\* or st.rerun() ends the run like the end of the script
PageRendered(r, name, args, page) ==
  /\ op' = [name |-> name, run |-> r, conn |-> cache, before |-> session[r],
            clicked |-> page.clicked] @@ args
  /\ ret' = page.ret
  /\ msgs' = page.msgs
  /\ exc' = page.exc
  /\ queries' = page.queries
  /\ session' = [session EXCEPT ![r] = page.sess]
  /\ run' = [run EXCEPT ![r].pc = "done"]

\* The script run r is routed to a patient page
RoutedTo(r, renderer) ==
  /\ Idle
  /\ run[r].pc = "page"
  /\ cache # <<>>
  /\ Route(session[r]).renderer = renderer

RenderPatientSummary(r) ==
  /\ RoutedTo(r, "patient_summary")
  /\ \E clicked \in Buttons,
        throws \in {{}, {"demographics"}, {"person_lookup"}} :
       LET page == render_patient_summary(session[r], clicked, throws)
       IN  /\ page.clicked = clicked
           /\ PageRendered(r, "render_patient_summary",
                           [outage |-> throws # {}], page)
  /\ UNCHANGED <<clock, statusCall, warehouse, cache, created>>

RenderObservations(r) ==
  /\ RoutedTo(r, "observations")
  /\ \E clicked \in Buttons, l \in DOMAIN DATE_RANGE_OPTIONS,
        t \in RecordSearchTerms, throws \in SUBSET {"observations"} :
       \E page \in render_observations(session[r], clicked, l, t, throws) :
         /\ page.clicked = clicked
         /\ PageRendered(r, "render_observations",
                         [date_range |-> l, search_term |-> t], page)
  /\ UNCHANGED <<clock, statusCall, warehouse, cache, created>>

RenderMedications(r) ==
  /\ RoutedTo(r, "medications")
  /\ \E clicked \in Buttons, l \in DOMAIN PAST_MEDICATIONS_DATE_RANGE_OPTIONS,
        t \in RecordSearchTerms, throws \in SUBSET {"medications"} :
       \E page \in render_medications(session[r], clicked, t, l, throws) :
         /\ page.clicked = clicked
         /\ PageRendered(r, "render_medications",
                         [date_range |-> l, search_term |-> t], page)
  /\ UNCHANGED <<clock, statusCall, warehouse, cache, created>>

\* Orders as the warehouse holds them: typed columns, possibly NULL
OrderRows ==
  [id : {1}, person_id : {PersonA},
   mapped_concept_code : {<<"1">>}, mapped_concept_display : {<<"a", "b">>},
   cancellation_date : Days \cup {NULL},
   expiry_date : Days \cup {NULL},
   is_active : {"null", "true", "false"},
   clinical_effective_date : Days \cup {NULL},
   duration_days : (0..MaxDuration) \cup {NULL}]

Order(p, cancel, expiry, active, effective, duration) ==
  [id |-> 2, person_id |-> p,
   mapped_concept_code |-> <<"2">>, mapped_concept_display |-> NullText,
   cancellation_date |-> cancel, expiry_date |-> expiry,
   is_active |-> active, clinical_effective_date |-> effective,
   duration_days |-> duration]

OtherTablesEmpty ==
  /\ persons = <<>>
  /\ history = <<>>
  /\ ltc = <<>>
  /\ observations = <<>>
  /\ appointments = <<>>

\* A few orders to stand next to an arbitrary one
SampleOrders ==
  {Order(PersonA, NULL, NULL, "null", NULL, NULL),
   Order(PersonA, NULL, NULL, "true", 0, MaxDuration),
   Order(PersonA, 0, NULL, "true", 0, NULL),
   Order(PersonB, NULL, NULL, "null", 0, MaxDuration)}

InitSummary ==
  /\ nowDay \in NowDays
  /\ nowTick \in Ticks
  /\ row = NullRow
  /\ status = "none"
  /\ raised = "none"
  /\ propagated = "none"
  /\ orders \in {<<>>} \cup {<<o>> : o \in OrderRows}
                 \cup {<<o, s>> : o \in OrderRows, s \in SampleOrders}
  /\ OtherTablesEmpty
  /\ NoCall
  /\ Connected

NextSummary == GetMedicationSummary \/ EndOfRun

SpecSummary == InitSummary /\ [][NextSummary]_vars

\* ------------------------------------------------- specifications
InitStatus ==
  /\ nowDay \in NowDays
  /\ nowTick \in Ticks
  /\ row \in Rows
  /\ status = "none"
  /\ raised = "none"
  /\ propagated = "none"
  /\ orders = <<>>
  /\ OtherTablesEmpty
  /\ NoCall
  /\ Connected

NextStatus == CalculateMedicationStatus

SpecStatus == InitStatus /\ [][NextStatus]_vars

\* Sample warehouse contents for the retrieval operations: person A has
\* more rows than MAX_OBSERVATIONS, person B has one, some dates are NULL
\* or tie.
Person1 == [sk_patient_id |-> 1, person_id |-> PersonA]
Person2 == [sk_patient_id |-> 2, person_id |-> PersonB]

SampleHistory ==
  <<[period_sequence |-> 1, person_id |-> PersonA, effective_start_date |-> 0],
    [period_sequence |-> 2, person_id |-> PersonA,
     effective_start_date |-> MaxDay],
    [period_sequence |-> 3, person_id |-> PersonA, effective_start_date |-> 1],
    [period_sequence |-> 1, person_id |-> PersonB, effective_start_date |-> 1]>>

SampleLtc ==
  <<[condition_code |-> 1, person_id |-> PersonA, is_on_register |-> TRUE,
     is_qof |-> FALSE, clinical_domain |-> 1, condition_name |-> 1],
    [condition_code |-> 2, person_id |-> PersonA, is_on_register |-> TRUE,
     is_qof |-> TRUE, clinical_domain |-> 2, condition_name |-> 2],
    [condition_code |-> 3, person_id |-> PersonA, is_on_register |-> FALSE,
     is_qof |-> TRUE, clinical_domain |-> 1, condition_name |-> 3]>>

Observation(i, p, d, code, display) ==
  [id |-> i, person_id |-> p, clinical_effective_date |-> d,
   mapped_concept_code |-> code, mapped_concept_display |-> display]

SampleObservations ==
  <<Observation(1, PersonA, 0, <<"1">>, <<"a", "b">>),
    Observation(2, PersonA, 1, <<"2">>, NullText),
    Observation(3, PersonA, MaxDay, <<"b", "1">>, <<"a">>),
    Observation(4, PersonB, NULL, <<"1">>, <<"a">>)>>

SampleOrderTable ==
  <<[Order(PersonA, NULL, NULL, "true", 0, MaxDuration) EXCEPT
       !.id = 1, !.mapped_concept_display = <<"a", "b">>],
    [Order(PersonA, 0, NULL, "false", 1, NULL) EXCEPT !.id = 2],
    [Order(PersonA, NULL, 0, "null", MaxDay, 0) EXCEPT
       !.id = 3, !.mapped_concept_code = <<"b">>],
    [Order(PersonB, NULL, NULL, "null", NULL, NULL) EXCEPT !.id = 4],
    [Order(PersonA, NULL, NULL, "null", NULL, NULL) EXCEPT !.id = 5]>>

Appointment(i, p, d) == [id |-> i, person_id |-> p, start_date |-> d]

SampleAppointments ==
  <<Appointment(1, PersonA, 0), Appointment(2, PersonA, 1),
    Appointment(3, PersonA, MaxDay), Appointment(4, PersonB, MaxDay)>>

InitRetrieval ==
  /\ nowDay \in NowDays
  /\ nowTick = 0
  /\ row = NullRow
  /\ status = "none"
  /\ raised = "none"
  /\ propagated = "none"
  /\ persons \in {<<>>, <<Person1>>, <<Person1, Person2>>}
  /\ history \in {<<>>, SampleHistory}
  /\ ltc \in {<<>>, SampleLtc}
  /\ observations \in {<<>>, SampleObservations}
  /\ orders \in {<<>>, SampleOrderTable}
  /\ appointments \in {<<>>, SampleAppointments}
  /\ NoCall
  /\ Connected

NextRetrieval ==
  \/ EndOfRun
  \/ SearchPatient
  \/ GetPatientDemographics
  \/ GetPatientRegistrationHistory
  \/ GetPatientLtcSummary
  \/ GetObservationSummary
  \/ GetPatientObservations
  \/ GetMedicationSummary
  \/ GetPatientMedications
  \/ GetAppointmentSummary
  \/ GetPatientAppointments
  \/ CalculateDateRange
  \/ CalculatePastMedicationsDateRange

SpecRetrieval == InitRetrieval /\ [][NextRetrieval]_vars

\* The appointment table: up to MaxAppointments appointments of person A
\* with any start date, followed by one of person B
AppointmentTables ==
  UNION {{[i \in 1..(n + 1) |->
             IF i <= n THEN Appointment(i, PersonA, d[i])
             ELSE Appointment(i, PersonB, MaxDay)] :
            d \in [1..n -> Days \cup {NULL}]} : n \in 0..MaxAppointments}

InitAppointments ==
  /\ nowDay \in NowDays
  /\ nowTick = 0
  /\ row = NullRow
  /\ status = "none"
  /\ raised = "none"
  /\ propagated = "none"
  /\ persons = <<Person1, Person2>>
  /\ history = <<>>
  /\ ltc = <<>>
  /\ observations = <<>>
  /\ orders = <<>>
  /\ appointments \in AppointmentTables
  /\ NoCall
  /\ Connected

NextAppointments == GetPatientAppointments \/ EndOfRun

SpecAppointments == InitAppointments /\ [][NextAppointments]_vars

\* The application from the start of the process: concurrent script runs
\* that obtain the connection and render the search page
InitApp ==
  /\ nowDay \in NowDays
  /\ nowTick = 0
  /\ row = NullRow
  /\ status = "none"
  /\ raised = "none"
  /\ propagated = "none"
  /\ persons \in {<<>>, <<Person1>>}
  /\ history = <<>>
  /\ ltc = <<>>
  /\ observations = <<>>
  /\ orders = <<>>
  /\ appointments = <<>>
  /\ NoCall
  /\ ProcessStart

NextApp ==
  \/ \E r \in Runs : CacheLookup(r)
  \/ \E r \in Runs : HandleCacheMiss(r)
  \/ \E r \in Runs : RenderSearch(r)
  \/ \E r \in Runs : RenderPatientSummary(r)
  \/ \E r \in Runs : Rerun(r)

SpecApp == InitApp /\ [][NextApp]_vars

\* One browser session from the start of the process, with two persons to
\* find
Visitors == {1}

InitNavigation ==
  /\ nowDay \in NowDays
  /\ nowTick = 0
  /\ row = NullRow
  /\ status = "none"
  /\ raised = "none"
  /\ propagated = "none"
  /\ persons = <<Person1, Person2>>
  /\ history \in {<<>>, SampleHistory}
  /\ ltc = <<>>
  /\ observations \in {<<>>, SampleObservations}
  /\ orders \in {<<>>, SampleOrderTable}
  /\ appointments = <<>>
  /\ NoCall
  /\ ProcessStart

NextNavigation ==
  \/ \E r \in Visitors : CacheLookup(r)
  \/ \E r \in Visitors : HandleCacheMiss(r)
  \/ \E r \in Visitors : RenderSearch(r)
  \/ \E r \in Visitors : RenderPatientSummary(r)
  \/ \E r \in Visitors : Rerun(r)

SpecNavigation == InitNavigation /\ [][NextNavigation]_vars

\* The values the pages assign to st.session_state.page
PageValues ==
  {"search", "patient_summary", "observations", "medications", "appointments"}

\* The pages one by one: the first script run is about to be routed, its
\* session holding any page value and any selection an earlier run may
\* have stored
InitPages ==
  /\ nowDay \in NowDays
  /\ nowTick \in Ticks
  /\ row = NullRow
  /\ status = "none"
  /\ raised = "none"
  /\ propagated = "none"
  /\ persons = <<Person1, Person2>>
  /\ history = SampleHistory
  /\ ltc = SampleLtc
  /\ observations = SampleObservations
  /\ orders = SampleOrderTable
  /\ appointments = SampleAppointments
  /\ NoCall
  /\ cache = <<1>>
  /\ created = 1
  /\ run = [r \in Runs |-> IF r = 1 THEN AtPage(1) ELSE StartOfRun]
  /\ \E page \in PageValues, selected \in SkIds \cup {NULL} :
       session = [r \in Runs |->
                    IF r = 1
                    THEN [page |-> page, selected_patient |-> selected,
                          search_results |-> PyNone]
                    ELSE NewSession]

NextPages ==
  \/ \E r \in Visitors : CacheLookup(r)
  \/ \E r \in Visitors : RenderSearch(r)
  \/ \E r \in Visitors : RenderPatientSummary(r)
  \/ \E r \in Visitors : RenderObservations(r)
  \/ \E r \in Visitors : RenderMedications(r)
  \/ \E r \in Visitors : Rerun(r)

SpecPages == InitPages /\ [][NextPages]_vars

\* ------------------------------------------------------------- claims
WellFormed(r) ==
  /\ r.CANCELLATION_DATE \in Days \cup {NULL}
  /\ r.EXPIRY_DATE \in Days \cup {NULL}
  /\ r.STATEMENT_IS_ACTIVE \in {"null", "true", "false"}
  /\ r.CLINICAL_EFFECTIVE_DATE \in Days \cup {NULL}
  /\ r.DURATION_DAYS \in (0..MaxDuration) \cup {NULL}

\* Rules 1-5 of the status derivation as an ordered decision list over
\* calendar dates, first matching rule winning.
DecisionList(r, todayDate) ==
  IF r.CANCELLATION_DATE # NULL /\ r.CANCELLATION_DATE <= todayDate
    THEN "Cancelled"
  ELSE IF r.EXPIRY_DATE # NULL /\ r.EXPIRY_DATE < todayDate THEN "Expired"
  ELSE IF r.STATEMENT_IS_ACTIVE = "false" THEN "Past"
  ELSE IF r.CLINICAL_EFFECTIVE_DATE # NULL /\ r.DURATION_DAYS # NULL
    THEN IF todayDate <= r.CLINICAL_EFFECTIVE_DATE + r.DURATION_DAYS
           THEN "Current" ELSE "Expired"
  ELSE "Current"

Called == status # "none" \/ propagated # "none"

\* C1: for every combination of the five inputs, each date absent, before,
\* equal to or after today, calculate_medication_status returns the value
\* of the ordered decision list of rules 1-5 (first match wins); the result
\* is one of the five statuses and the all-absent row yields Current.
C1_DecisionList ==
  Called =>
    /\ status \in Statuses
    /\ WellFormed(row) => status = DecisionList(row, nowDay)
    /\ row = NullRow => status = "Current"

\* C3: a row whose only present fields are clinicalEffectiveDate and
\* durationDays, with today = clinicalEffectiveDate + durationDays, yields
\* Current whatever the time of day.
C3_EndDateInclusive ==
  ( /\ Called
    /\ row.CANCELLATION_DATE = NULL
    /\ row.EXPIRY_DATE = NULL
    /\ row.STATEMENT_IS_ACTIVE = "null"
    /\ row.CLINICAL_EFFECTIVE_DATE \in Days
    /\ row.DURATION_DAYS \in 0..MaxDuration
    /\ row.CLINICAL_EFFECTIVE_DATE + row.DURATION_DAYS = nowDay )
  => status = "Current"

C4_Case ==
  /\ Called
  /\ row.CANCELLATION_DATE \in Days
  /\ row.CANCELLATION_DATE < nowDay
  /\ row.EXPIRY_DATE \in Days
  /\ row.EXPIRY_DATE < nowDay

\* C4: cancellationDate in the past and expiryDate in the past yield
\* Cancelled, for every value of the other three fields.
C4_CancelledBeforeExpired == C4_Case => status = "Cancelled"

C4_Witness ==
  /\ C4_Case
  /\ status = "Cancelled"
  /\ row.STATEMENT_IS_ACTIVE = "false"
  /\ row.DURATION_DAYS = BAD

C5_Case ==
  /\ Called
  /\ row.CANCELLATION_DATE = NULL
  /\ row.EXPIRY_DATE = NULL
  /\ row.STATEMENT_IS_ACTIVE = "false"
  /\ row.CLINICAL_EFFECTIVE_DATE \in Days
  /\ row.DURATION_DAYS \in 0..MaxDuration
  /\ row.CLINICAL_EFFECTIVE_DATE + row.DURATION_DAYS > nowDay

\* C5: no cancellationDate, no expiryDate, statementIsActive false and a
\* duration end date after today yield Past.
C5_InactiveBeforeDuration == C5_Case => status = "Past"

C5_Witness == C5_Case /\ status = "Past"

\* C6: an exception raised while a row is evaluated is caught inside the
\* function, which returns Unknown; no exception reaches the caller.
C6_ExceptionsSwallowed ==
  Called =>
    /\ propagated = "none"
    /\ raised # "none" => status = "Unknown"

C6_Witness ==
  /\ raised = "KeyError"
  /\ status = "Unknown"
  /\ propagated = "none"

\* The number of orders of person p whose per-row status is Current
CurrentByRow(p) ==
  LET mine == OfPerson(orders, p)
  IN  Cardinality({i \in DOMAIN mine :
        calculate_medication_status(MedicationRow(mine[i]),
                                    Now(nowDay, nowTick)).ret = "Current"})

SummaryReturned ==
  /\ op.name = "get_medication_summary"
  /\ \A i \in DOMAIN queries : ~queries[i].threw

\* C2: the current/active count of get_medication_summary equals the number
\* of the person's orders for which calculate_medication_status yields
\* Current.
C2_SummaryCountsCurrent ==
  SummaryReturned =>
    ret.dict.active_medications = CurrentByRow(op.person_id)

\* A query of the last call threw
QueryThrew == \E i \in DOMAIN queries : queries[i].threw

\* An empty table, or a summary record of zero counts and null dates
EmptyResult(r) ==
  \/ r.kind = "table" /\ r.rows = <<>>
  \/ r.kind = "dict" /\ \A k \in DOMAIN r.dict : r.dict[k] \in {0, NULL}

\* C7: when a warehouse query of a retrieval operation throws, the lookup
\* of person_id from the surrogate key included, the operation returns an
\* empty result, surfaces a warning or error and lets no exception through.
C7_QueryFailureSwallowed ==
  QueryThrew =>
    /\ exc = "none"
    /\ EmptyResult(ret)
    /\ msgs # <<>>

\* An identifier that matches no row of the warehouse
NoPerson == <<"Z">>
NoSk == CHOOSE k \in 0..2 : k \notin SkIds

\* What each operation returns when its queries succeed and match no row
NoMatchReturns(name) ==
  CASE name = "search_patient" -> {search_patient(NoPerson, {}).ret}
    [] name = "get_patient_demographics" ->
         {get_patient_demographics(NoSk, {}).ret}
    [] name = "get_patient_registration_history" ->
         {o.ret : o \in get_patient_registration_history(NoSk, {})}
    [] name = "get_patient_ltc_summary" ->
         {o.ret : o \in get_patient_ltc_summary(NoSk, {})}
    [] name = "get_observation_summary" ->
         {get_observation_summary(NoPerson, {}).ret}
    [] name = "get_patient_observations" ->
         {o.ret : o \in get_patient_observations(NoPerson, NULL, NULL, <<>>,
                                                 {})}
    [] name = "get_medication_summary" ->
         {get_medication_summary(NoPerson, {}).ret}
    [] name = "get_patient_medications" ->
         {o.ret : o \in get_patient_medications(NoPerson, NULL, NULL, <<>>,
                                                {}, {})}
    [] name = "get_appointment_summary" ->
         {get_appointment_summary(NoPerson, {}).ret}
    [] name = "get_patient_appointments" ->
         {o.ret : o \in get_patient_appointments(NoPerson, NULL, NULL, TRUE,
                                                 {})}

\* C8: the value a retrieval operation returns when its query fails is the
\* value it returns when the query succeeds with no matching row (stated
\* for the calls that return a value; C7 covers those that raise).
C8_FailureLooksEmpty ==
  (QueryThrew /\ exc = "none") => ret \in NoMatchReturns(op.name)

AppointmentsReturned ==
  /\ op.name = "get_patient_appointments"
  /\ ~QueryThrew

ReturnedIds == {ret.rows[i].id : i \in DOMAIN ret.rows}

\* The appointments of the person asked for that satisfy P
AppointmentsWith(P(_)) ==
  {appointments[i].id : i \in
     {j \in DOMAIN appointments :
        /\ appointments[j].person_id = op.person_id
        /\ P(appointments[j])}}

StartOf(id) ==
  (CHOOSE a \in {appointments[i] : i \in DOMAIN appointments} :
     a.id = id).start_date

IsFuture(a) == a.start_date # NULL /\ a.start_date > nowDay
FromOrFuture(a) ==
  a.start_date # NULL /\ (a.start_date >= op.date_from \/ IsFuture(a))
IsTomorrow(a) == a.start_date = nowDay + 1

C9_Case ==
  /\ AppointmentsReturned
  /\ op.include_future
  /\ op.date_from # NULL
  /\ op.date_from < nowDay
  /\ op.date_to = NULL

UpToCeiling(wanted) ==
  /\ ReturnedIds \subseteq wanted
  /\ Len(ret.rows) = Cardinality(ReturnedIds)
  /\ IF Cardinality(wanted) <= MAX_OBSERVATIONS
     THEN ReturnedIds = wanted
     ELSE /\ Len(ret.rows) = MAX_OBSERVATIONS
          /\ \A x \in wanted \ ReturnedIds : \A y \in ReturnedIds :
               StartOf(x) <= StartOf(y)

C10_FutureAlwaysIncluded ==
  (AppointmentsReturned /\ op.include_future) =>
    \/ AppointmentsWith(IsFuture) \subseteq ReturnedIds
    \/ /\ Len(ret.rows) = MAX_OBSERVATIONS
       /\ ReturnedIds \subseteq AppointmentsWith(IsFuture)

\* The term is an integer literal: digits, possibly between blanks
IsIntegerLiteral(t) ==
  \E i, j \in DOMAIN t :
    /\ i <= j
    /\ \A k \in DOMAIN t : IF k < i \/ k > j THEN t[k] = " " ELSE IsDigit(t[k])

SearchedPersons(P(_)) ==
  {persons[i].sk_patient_id : i \in {j \in DOMAIN persons : P(persons[j])}}

\* C11: search_patient runs the numeric query (surrogate key equal to the
\* parsed integer or natural identifier equal to the term) exactly when the
\* term is an integer literal, and otherwise the string query (natural
\* identifier equal to the term); 12345 takes the numeric branch, ABC123
\* the string branch.
C11_BranchByParse ==
  op.name = "search_patient" =>
    LET t == op.search_term
        BySkOrId(r) == r.sk_patient_id = ParseInt(t) \/ r.person_id = t
        ById(r) == r.person_id = t
        found == {ret.rows[i].sk_patient_id : i \in DOMAIN ret.rows}
    IN  /\ Len(queries) = 1
        /\ queries[1].query = IF IsIntegerLiteral(t) THEN "search_numeric"
                              ELSE "search_string"
        /\ t = <<"1", "2", "3", "4", "5">> => queries[1].query = "search_numeric"
        /\ t = <<"A", "B", "C", "1", "2", "3">> =>
             queries[1].query = "search_string"
        /\ ~QueryThrew =>
             found = IF IsIntegerLiteral(t) THEN SearchedPersons(BySkOrId)
                     ELSE SearchedPersons(ById)

\* the term 02 finds person 2 by the surrogate key alone
C11_Witness ==
  /\ op.name = "search_patient"
  /\ op.search_term = <<"0", "2">>
  /\ queries[1].query = "search_numeric"
  /\ ret.rows = <<Person2>>

\* The term matches no person, by natural identifier or by surrogate key
NoMatch(t) ==
  \A i \in DOMAIN persons :
    /\ persons[i].person_id # t
    /\ persons[i].sk_patient_id # ParseInt(t)

ErrorMessages == {"error: Error searching for patient"}

\* C12: a search submitted with an empty term, or with a term that matches
\* no person, ends with an empty result and without an error or exception
\* (the warehouse being available): the page leaves no results in the
\* session and search_patient, when called, returns an empty table.
C12_EmptySearchNoError ==
  ( /\ op.name = "render_search"
    /\ op.search_clicked
    /\ ~op.outage
    /\ op.search_term = <<>> \/ NoMatch(op.search_term) )
  => /\ exc = "none"
     /\ \A i \in DOMAIN msgs : msgs[i] \notin ErrorMessages
     /\ session[op.run].search_results = PyNone
     /\ op.search_term # <<>> => ret = DataFrame(<<>>)

\* What a resolver over the option table `table` is to return for a label
\* of that table
Resolved(table, l) ==
  IF table[l] = NULL THEN [date_from |-> NULL, date_to |-> NULL]
  ELSE [date_from |-> nowDay - table[l], date_to |-> nowDay]

\* C13: each date-range resolver returns (None, None) for a label its table
\* maps to None, and (today - days, today) for a label its table maps to a
\* number of days; for 90 days the range is (today - 90, today).
C13_DateRangeResolved ==
  /\ ( /\ op.name = "calculate_date_range"
       /\ op.range_option \in DOMAIN DATE_RANGE_OPTIONS )
     => ret.dict = Resolved(DATE_RANGE_OPTIONS, op.range_option)
  /\ ( /\ op.name = "calculate_past_medications_date_range"
       /\ op.range_option \in DOMAIN PAST_MEDICATIONS_DATE_RANGE_OPTIONS )
     => /\ ret.dict = Resolved(PAST_MEDICATIONS_DATE_RANGE_OPTIONS,
                               op.range_option)
        /\ op.range_option = "90 days" =>
             ret.dict = [date_from |-> nowDay - 90, date_to |-> nowDay]

C13_Witness ==
  /\ op.name = "calculate_past_medications_date_range"
  /\ op.range_option = "90 days"
  /\ ret.dict.date_from = nowDay - 90
  /\ ret.dict.date_to = nowDay

\* C14: a resolver resolves labels against its own option table only: a
\* label that only the other table holds gives (None, None), never the
\* range of the other table's day count.
C14_TablesSeparate ==
  /\ ( /\ op.name = "calculate_date_range"
       /\ op.range_option \notin DOMAIN DATE_RANGE_OPTIONS )
     => ret.dict = [date_from |-> NULL, date_to |-> NULL]
  /\ ( /\ op.name = "calculate_past_medications_date_range"
       /\ op.range_option \notin DOMAIN PAST_MEDICATIONS_DATE_RANGE_OPTIONS )
     => ret.dict = [date_from |-> NULL, date_to |-> NULL]

C14_Witness ==
  /\ op.name = "calculate_date_range"
  /\ op.range_option = "90 days"
  /\ PAST_MEDICATIONS_DATE_RANGE_OPTIONS[op.range_option] = 90
  /\ ret.dict = [date_from |-> NULL, date_to |-> NULL]

\* The three operations whose query ends with LIMIT MAX_OBSERVATIONS
Capped ==
  {"get_patient_observations", "get_patient_medications",
   "get_patient_appointments"}

\* The call returned a table from a query that ran
TableReturned == op.name # "none" /\ ret.kind = "table" /\ ~QueryThrew /\ exc = "none"

\* The rows of the warehouse that match the filter of the last call, and
\* the rows it returned, each as its id and its effective / start date
MatchedRows ==
  CASE op.name = "get_patient_observations" ->
         {[id |-> r.id, date |-> r.clinical_effective_date] :
            r \in {o \in {observations[i] : i \in DOMAIN observations} :
                     RecordFilter(o, op.person_id, op.date_from, op.date_to,
                                  op.search_term)}}
    [] op.name = "get_patient_medications" ->
         {[id |-> r.id, date |-> r.clinical_effective_date] :
            r \in {o \in {orders[i] : i \in DOMAIN orders} :
                     RecordFilter(o, op.person_id, op.date_from, op.date_to,
                                  op.search_term)}}
    [] op.name = "get_patient_appointments" ->
         {[id |-> r.id, date |-> r.start_date] :
            r \in {a \in {appointments[i] : i \in DOMAIN appointments} :
                     AppointmentFilter(a, op.person_id, op.date_from,
                                       op.date_to, op.include_future)}}

ReturnedRows ==
  CASE op.name = "get_patient_observations" ->
         [i \in DOMAIN ret.rows |->
            [id |-> ret.rows[i].id,
             date |-> ret.rows[i].clinical_effective_date]]
    [] op.name = "get_patient_medications" ->
         [i \in DOMAIN ret.rows |->
            [id |-> ret.rows[i].ID,
             date |-> ret.rows[i].CLINICAL_EFFECTIVE_DATE]]
    [] op.name = "get_patient_appointments" ->
         [i \in DOMAIN ret.rows |->
            [id |-> ret.rows[i].id, date |-> ret.rows[i].start_date]]

\* a is dated, and b is undated or no later than a
NoEarlier(a, b) == a.date # NULL /\ (b.date = NULL \/ b.date <= a.date)

\* C15: when more rows match than MAX_OBSERVATIONS, each of the three
\* operations returns exactly MAX_OBSERVATIONS rows, which are the matching
\* rows with the latest dates, in descending date order, and raises no
\* error.
C15_CeilingKeepsLatest ==
  ( /\ op.name \in Capped
    /\ TableReturned
    /\ Cardinality(MatchedRows) > MAX_OBSERVATIONS )
  => LET returned == {ReturnedRows[i] : i \in DOMAIN ReturnedRows}
     IN  /\ msgs = <<>>
         /\ Len(ret.rows) = MAX_OBSERVATIONS
         /\ Cardinality(returned) = MAX_OBSERVATIONS
         /\ returned \subseteq MatchedRows
         /\ \A i, j \in DOMAIN ReturnedRows :
              i < j => NoEarlier(ReturnedRows[i], ReturnedRows[j])
         /\ \A x \in returned : \A y \in MatchedRows \ returned :
              NoEarlier(x, y)

Uncapped ==
  {"search_patient", "get_patient_registration_history",
   "get_patient_ltc_summary"}

\* C16 as stated: no list-returning operation returns more than
\* MAX_OBSERVATIONS rows.
C16_EveryListCapped ==
  (op.name \in Capped \cup Uncapped /\ ret.kind = "table") =>
    Len(ret.rows) <= MAX_OBSERVATIONS

\* The number of rows of table t of the person asked for
RowsOfPerson(t) ==
  Cardinality({i \in DOMAIN t : t[i].person_id = op.person_id})

\* The number of rows the query of an uncapped operation matches
UncappedMatches ==
  CASE op.name = "search_patient" ->
         Cardinality({i \in DOMAIN persons :
           \/ persons[i].person_id = op.search_term
           \/ persons[i].sk_patient_id = ParseInt(op.search_term)})
    [] op.name = "get_patient_registration_history" ->
         Cardinality({i \in DOMAIN history : \E j \in DOMAIN persons :
           /\ persons[j].sk_patient_id = op.sk_patient_id
           /\ history[i].person_id = persons[j].person_id})
    [] op.name = "get_patient_ltc_summary" ->
         Cardinality({i \in DOMAIN ltc : \E j \in DOMAIN persons :
           /\ persons[j].sk_patient_id = op.sk_patient_id
           /\ ltc[i].person_id = persons[j].person_id
           /\ ltc[i].is_on_register})

\* C16 (amended): MAX_OBSERVATIONS caps get_patient_observations,
\* get_patient_medications and get_patient_appointments; search_patient,
\* get_patient_registration_history and get_patient_ltc_summary return
\* every matching row; the summary queries count every row of the person.
C16_RecordListsCapped ==
  /\ (op.name \in Capped /\ ret.kind = "table") =>
       Len(ret.rows) <= MAX_OBSERVATIONS
  /\ (op.name \in Uncapped /\ TableReturned) =>
       Len(ret.rows) = UncappedMatches
  /\ (op.name = "get_observation_summary" /\ ~QueryThrew) =>
       ret.dict.total_observations = RowsOfPerson(observations)
  /\ (op.name = "get_medication_summary" /\ ~QueryThrew) =>
       ret.dict.total_medications = RowsOfPerson(orders)
  /\ (op.name = "get_appointment_summary" /\ ~QueryThrew) =>
       ret.dict.total_appointments = RowsOfPerson(appointments)

\* a capped operation cut its result while a summary counted beyond the cap
C16_Witness ==
  /\ op.name = "get_patient_observations"
  /\ TableReturned
  /\ Cardinality(MatchedRows) > MAX_OBSERVATIONS
  /\ Len(ret.rows) = MAX_OBSERVATIONS

\* C19: within one call of a service operation no query is executed twice,
\* and a query that failed is the last one executed.
C19_NoRetry ==
  op.name # "none" =>
    /\ \A i, j \in DOMAIN queries :
         i # j => queries[i].query # queries[j].query
    /\ \A i \in DOMAIN queries : queries[i].threw => i = Len(queries)

C19_Witness ==
  /\ op.name = "get_patient_registration_history"
  /\ Len(queries) = 2
  /\ ~queries[1].threw
  /\ queries[2].threw
  /\ ret = DataFrame(<<>>)

\* C20: a call of get_patient_medications that passes current_only is
\* executed and returns a table of rows; it does not raise.
C20_CurrentOnlySupported ==
  (op.name = "get_patient_medications" /\ "current_only" \in op.kwargs) =>
    /\ exc = "none"
    /\ ret.kind = "table"

\* C17: the warehouse session is created at most once in the process, by
\* the first call of get_connection that runs its body to the end, and
\* every call returns that one handle, also when the first calls of
\* several script runs overlap.
C17_SingleSession ==
  /\ created <= 1
  /\ cache \in {<<>>, <<1>>}
  /\ cache # <<>> => created = 1
  /\ \A r \in Runs :
       /\ run[r].pc \in {"page", "done"} => run[r].conn # <<>>
       /\ run[r].conn # <<>> => run[r].conn = cache
  /\ op.name # "none" => op.conn = cache

\* two runs missed the cache at the same time and hold the same handle
C17_Witness ==
  \E r1, r2 \in Runs :
    /\ r1 # r2
    /\ run[r1].waited /\ run[r2].waited
    /\ run[r1].attempts = 1 /\ run[r2].attempts = 0
    /\ run[r1].conn = <<1>> /\ run[r2].conn = <<1>>
    /\ created = 1

\* C18: when the session cannot be established the run shows an error and
\* is halted: nothing after get_connection runs in it and it issues no
\* query, no None handle is returned or cached, and the run does not try
\* to create the session again.
C18_FailureHalts ==
  /\ cache # <<NULL>>
  /\ \A r \in Runs :
       /\ run[r].conn # <<NULL>>
       /\ run[r].failed =>
            /\ run[r].pc = "halted"
            /\ run[r].conn = <<>>
            /\ run[r].msgs = <<"error: Failed to connect to Snowflake">>
            /\ run[r].attempts = 1
            /\ op.name # "none" => op.run # r

\* a run was halted while another run of the process holds the handle
C18_Witness ==
  \E r1, r2 \in Runs :
    /\ run[r1].failed /\ run[r1].pc = "halted"
    /\ run[r2].conn = <<1>>
    /\ op.name = "render_search" /\ op.run = r2

\* The text holds the term as a substring, letter case ignored
Contains(text, term) ==
  /\ text # NullText
  /\ \E i \in 1..(Len(text) - Len(term) + 1) :
       SubSeq(LowerText(text), i, i + Len(term) - 1) = LowerText(term)

\* The term is non-empty and not all whitespace
Searching(term) == \E i \in DOMAIN term : term[i] # " "

\* The ids of the rows of the table the last record-list call reads that
\* the filters as stated keep
KeptAsStated ==
  LET t == IF op.name = "get_patient_observations" THEN observations
           ELSE orders
  IN  {t[i].id : i \in
        {j \in DOMAIN t :
           /\ t[j].person_id = op.person_id
           /\ op.date_from # NULL =>
                /\ t[j].clinical_effective_date # NULL
                /\ t[j].clinical_effective_date >= op.date_from
           /\ op.date_to # NULL =>
                /\ t[j].clinical_effective_date # NULL
                /\ t[j].clinical_effective_date <= op.date_to
           /\ Searching(op.search_term) =>
                \/ Contains(t[j].mapped_concept_code, op.search_term)
                \/ Contains(t[j].mapped_concept_display, op.search_term)}}

\* C21: get_patient_observations and get_patient_medications apply the
\* text filter exactly when search_term is non-empty and not all
\* whitespace; a row is then kept exactly when its code or its display
\* contains the term, case ignored; date_from and date_to are each applied
\* only when given, and inclusively. (Up to the row ceiling, the returned
\* rows are the rows so kept.)
C21_FiltersAsStated ==
  ( /\ op.name \in {"get_patient_observations", "get_patient_medications"}
    /\ TableReturned )
  => LET returned == {ReturnedRows[i].id : i \in DOMAIN ReturnedRows}
     IN  /\ returned \subseteq KeptAsStated
         /\ Cardinality(KeptAsStated) <= MAX_OBSERVATIONS =>
              returned = KeptAsStated

\* The persons whose surrogate key is the one the last call was given
PersonsOfKey ==
  {persons[i].person_id :
     i \in {j \in DOMAIN persons : persons[j].sk_patient_id = op.sk_patient_id}}

\* The periods of person p in the history table, and those returned
PeriodsOf(p) ==
  {history[i] : i \in {j \in DOMAIN history : history[j].person_id = p}}
PeriodsReturned == {ret.rows[i] : i \in DOMAIN ret.rows}

\* C22: get_patient_registration_history resolves the natural identifier
\* from the surrogate key and returns every historical period of that
\* person, ordered by effective start date descending; when the key
\* matches no person it returns an empty result without querying the
\* history table.
C22_HistoryResolved ==
  ( /\ op.name = "get_patient_registration_history"
    /\ exc = "none"
    /\ ~QueryThrew )
  => IF PersonsOfKey = {}
     THEN /\ ret = DataFrame(<<>>)
          /\ \A i \in DOMAIN queries : queries[i].query # "registration_history"
     ELSE /\ ret.kind = "table"
          /\ \E p \in PersonsOfKey :
               /\ PeriodsReturned = PeriodsOf(p)
               /\ Len(ret.rows) = Cardinality(PeriodsOf(p))
          /\ \A i, j \in DOMAIN ret.rows :
               i < j => ret.rows[i].effective_start_date
                          >= ret.rows[j].effective_start_date
          /\ \E i \in DOMAIN queries : queries[i].query = "registration_history"

\* The three periods of a person returned latest first, in another order
\* than the table holds them
C22_Witness ==
  /\ op.name = "get_patient_registration_history"
  /\ exc = "none"
  /\ ~QueryThrew
  /\ Len(ret.rows) = 3
  /\ ret.rows # SelectSeq(history, LAMBDA h : h.person_id = PersonA)

\* Rules 3-5 of the status derivation over calendar dates
RulesThreeToFive(r, todayDate) ==
  IF r.STATEMENT_IS_ACTIVE = "false" THEN "Past"
  ELSE IF r.CLINICAL_EFFECTIVE_DATE # NULL /\ r.DURATION_DAYS # NULL
    THEN IF todayDate <= r.CLINICAL_EFFECTIVE_DATE + r.DURATION_DAYS
           THEN "Current" ELSE "Expired"
  ELSE "Current"

\* C25: a row with no effective cancellation whose expiryDate is today is
\* not classified Expired by rule 2, at any time of day: rules 3-5 give
\* its status. (Rows whose duration ends today are left to C3.)
C25_ExpiryDayNotExpired ==
  ( /\ Called
    /\ WellFormed(row)
    /\ row.CANCELLATION_DATE = NULL \/ row.CANCELLATION_DATE > nowDay
    /\ row.EXPIRY_DATE = nowDay
    /\ ~( /\ row.CLINICAL_EFFECTIVE_DATE # NULL
          /\ row.DURATION_DAYS # NULL
          /\ row.CLINICAL_EFFECTIVE_DATE + row.DURATION_DAYS = nowDay ) )
  => status = RulesThreeToFive(row, nowDay)

\* The record the summary operation named n returns for person p when its
\* query runs
SummaryOnSuccess(n, p) ==
  CASE n = "get_observation_summary" -> get_observation_summary(p, {}).ret
    [] n = "get_medication_summary" -> get_medication_summary(p, {}).ret
    [] n = "get_appointment_summary" -> get_appointment_summary(p, {}).ret

\* C26: each summary operation returns a record with the same key set on
\* its success, empty-result and failure paths, and the key set holds
\* every key the patient-summary page reads from it.
C26_SummaryKeys ==
  op.name \in DOMAIN SummaryKeysRead =>
    /\ ret.kind = "dict"
    /\ DOMAIN ret.dict = DOMAIN SummaryOnSuccess(op.name, op.person_id).dict
    /\ SummaryKeysRead[op.name] \subseteq DOMAIN ret.dict

C29_Case ==
  /\ AppointmentsReturned
  /\ op.date_from = NULL \/ op.date_from <= nowDay

PageRenderers ==
  {"render_search", "render_patient_summary", "render_observations",
   "render_medications"}

\* The renderer the claim assigns to a page value
RendererAsStated(page) ==
  CASE page = "patient_summary" -> "render_patient_summary"
    [] page = "observations" -> "render_observations"
    [] page = "medications" -> "render_medications"
    [] OTHER -> "render_search"

Selected(sess) == sess.selected_patient \notin {MISSING, NULL}

\* C28: in every state reached from the initial session by the actions of
\* the pages, a page other than search implies that a patient is selected;
\* a selected patient is never cleared, and changes only through a View
\* Record click.
C28_PatientStaysSelected ==
  /\ [](\A r \in Runs :
          session[r].page \notin {"absent", "search"} => Selected(session[r]))
  /\ [][\A r \in Runs :
          /\ Selected(session[r]) => Selected(session'[r])
          /\ ( /\ Selected(session'[r])
               /\ session'[r].selected_patient # session[r].selected_patient )
             => /\ op'.name = "render_search"
                /\ op'.run = r
                /\ op'.view > 0]_vars

\* The patient page was left by Back to Search with the patient still
\* selected, and a View Record click on the search page has then replaced
\* that patient by another
C28_Witness ==
  /\ op.name = "render_search"
  /\ op.view > 0
  /\ op.before.page = "search"
  /\ Selected(op.before)
  /\ op.before.selected_patient # session[op.run].selected_patient
  /\ session[op.run].page = "patient_summary"

\* The session as a run finds it when no earlier run has stored anything
FreshSessions == {NewSession, SessionDefaults(NewSession)}

\* C23 as stated: the cached connection handle is the only state carried
\* from one interaction to the next, so the session a page render reads
\* holds no value written by an earlier interaction.
C23_OnlyHandleCarried ==
  op.name \in PageRenderers => op.before \in FreshSessions

\* The results render_search shows when the form was not submitted
StoredResults(sess) ==
  IF sess.search_results.kind = "table" THEN sess.search_results.rows
  ELSE <<>>

\* C23 (amended): two things are carried from one interaction to the next:
\* the cached connection handle, and the session's st.session_state (page,
\* selected_patient, search_results), which only a page render changes once
\* its defaults are set and which the next run reads; a new run starts
\* with nothing else.
C23_HandleAndSessionCarried ==
  /\ [](\A r \in Runs :
          /\ run[r].pc = "start" => run[r] = StartOfRun
          /\ run[r].pc = "page" => run[r].conn = cache)
  /\ []((op.name = "render_search" /\ ~op.search_clicked) =>
          op.shown = StoredResults(op.before))
  /\ [][\A r \in Runs :
          (session[r].page # "absent" /\ run'[r].pc # "done")
            => session'[r] = session[r]]_vars

\* A run that made no search shows the results an earlier run stored, on
\* the page that run left, with the handle it did not create
C23_Witness ==
  /\ op.name = "render_search"
  /\ ~op.search_clicked
  /\ op.shown # <<>>
  /\ op.before.selected_patient # NULL
  /\ run[op.run].attempts = 0
  /\ run[op.run].conn = cache

\* C24: no operation writes the warehouse: the six tables are the same
\* after every step, whatever was searched, rendered, retrieved or
\* summarised.
C24_WarehouseReadOnly == [][warehouse' = warehouse]_vars

\* An operation has read a table that holds rows and returned some of them
C24_Witness ==
  /\ op.name \in {"get_patient_observations", "get_patient_medications",
                  "get_patient_appointments", "search_patient",
                  "get_patient_registration_history"}
  /\ ret.rows # <<>>
  /\ ~QueryThrew
  /\ Len(ret.rows) < 3
  /\ observations # <<>>
  /\ persons # <<>>

\* The medications page has gone past its guard and its navigation buttons
MedicationsListed ==
  /\ op.name = "render_medications"
  /\ ~NoPatientSelected(op.before)
  /\ op.clicked = "none"

\* The rows, in their order, of the tables get_patient_medications may
\* return for the page's past-medications fetch
PastFetches ==
  LET range == calculate_past_medications_date_range(op.date_range,
                                                     nowDay).dict
  IN  {f.ret.rows :
         f \in get_patient_medications(Str(op.before.selected_patient),
                                       range.date_from, range.date_to,
                                       op.search_term, {}, {})}

\* The rows of `rows` whose status is not Current, in their order
NotCurrentOf(rows) ==
  SelectSeq(rows, LAMBDA m :
    calculate_medication_status(m, Now(nowDay, nowTick)).ret # "Current")

====
